---- MODULE Spec2Model ----
(***************************************************************************)
(* A model of looplift: the interval tree of src/lift/itree.rs, the         *)
(* in-place extent shuffler do_lift of src/lift.rs over the positional     *)
(* I/O operations of src/utils.rs, and the scanner do_scan of src/scan.rs. *)
(*                                                                         *)
(* Offsets are 0-based as in the source; the device is a sequence of       *)
(* bytes, so the byte at offset o is device[o + 1].  A Range<u64> a..b is  *)
(* the record [start |-> a, end |-> b].                                    *)
(***************************************************************************)
EXTENDS Integers, Sequences, FiniteSets, TLC

\* Largest device (and interval-tree span) length explored.
MaxDeviceLength == 3
\* Largest number of extent records the report reader delivers.
MaxRecords == 3
\* The span of the interval tree explored on its own is 0..TreeSpanLength.
TreeSpanLength == 3
\* Largest number of live entries in the interval tree explored on its own.
MaxLive == 3

\* RangeOps is explored on ranges with bounds in 0..MaxRangeBound.
MaxRangeBound == 3
\* Largest file length the scanner is explored on.
MaxFileLength == 3
\* Extents one FIEMAP request returns at most (fm_extents has 32 slots).
MaxMappedExtents == 1

\* utils.rs: const BUFFER_LENGTH: usize = 128 * 1024
BUFFER_LENGTH == 131072

VARIABLES
    \* ---- do_lift (src/lift.rs) over FileOps (src/utils.rs)
    phase,                \* where do_lift is: summary, planner, copy, zero, verify, done
    status,               \* running, ok (returned Ok), panic (assertion), error (returned Err)
    dry_run,              \* FileOps.dry_run
    device_length,        \* device.metadata()?.len() at entry
    device,               \* the bytes of the device file
    write_ops,            \* FileOps.write_ops
    report,               \* the extent records deserialized so far, in order
    expected_next_offset,
    zeroing_queue,
    final_csum_queue,
    copy_queue,           \* IntervalTree<CopyOp>.root_node, span 0..device_length
    \* ---- the interval tree on its own (src/lift/itree.rs)
    tree,                 \* IntervalTree.root_node, span 0..TreeSpanLength
    live,                 \* entries inserted and not since removed
    tree_call,            \* the last call made on the tree and what it returned
    \* ---- RangeOps on its own (src/lift.rs, src/lift/itree.rs)
    range_call,           \* two ranges and what overlaps_range returned for them
    \* ---- do_scan (src/scan.rs)
    scan_pc,              \* where do_scan is: start, loop (while), extents (for), done
    scan_status,          \* running, ok (returned Ok), panic, error (returned Err)
    file_length,          \* file.metadata()?.len()
    host_extents,         \* the extent map the host holds for the file, in order
    file_offset,
    fm_extents,           \* the extents of the last request not yet gone through
    scan_out              \* the extent records serialized so far, in order

vars == <<phase, status, dry_run, device_length, device, write_ops, report,
          expected_next_offset, zeroing_queue, final_csum_queue, copy_queue,
          tree, live, tree_call, range_call, scan_pc, scan_status,
          file_length, host_extents, file_offset, fm_extents, scan_out>>

lift_vars == <<phase, status, dry_run, device_length, device, write_ops, report,
               expected_next_offset, zeroing_queue, final_csum_queue, copy_queue>>

tree_vars == <<tree, live, tree_call>>

range_vars == <<range_call>>

scan_vars == <<scan_pc, scan_status, file_length, host_extents, file_offset,
               fm_extents, scan_out>>

not_lift_vars == <<tree_vars, range_vars, scan_vars>>

not_tree_vars == <<lift_vars, range_vars, scan_vars>>

not_range_vars == <<lift_vars, tree_vars, scan_vars>>

not_scan_vars == <<lift_vars, tree_vars, range_vars>>

----------------------------------------------------------------------------
(* Ranges                                                                   *)

Range(a, b) == [start |-> a, end |-> b]

\* Range::is_empty
range_is_empty(r) == r.start >= r.end

RangeLen(r) == r.end - r.start

\* RangeOps::contains_range (identical in lift.rs and itree.rs)
contains_range(self, other) ==
    (self.start <= other.start) /\ (other.end <= self.end)

\* RangeOps::overlaps_range of lift.rs with strict comparisons
overlaps_range_strict(self, other) ==
    ~((self.end < other.start) \/ (other.end < self.start))

\* RangeOps::overlaps_range of lift.rs
overlaps_range(self, other) ==
    ~((self.end <= other.start) \/ (other.end <= self.start))

\* RangeOps::overlaps_range of itree.rs
itree_overlaps_range(self, other) ==
    (self.end <= other.start) = (other.end <= self.start)

\* The ranges overlaps_range is tried on: every pair of bounds, the empty
\* ranges included
Ranges == {Range(a, b) : a \in 0..MaxRangeBound, b \in 0..MaxRangeBound}

\* Two ranges, and once overlaps_range has been called on them, what the
\* implementation of lift.rs and the one of itree.rs returned
RangeCall(state, self, other, lift, itree) ==
    [state |-> state, self |-> self, other |-> other,
     lift |-> lift, itree |-> itree]

RangeIdle == range_call = RangeCall("idle", Range(0, 0), Range(0, 0), FALSE, FALSE)

RangeInit ==
    range_call \in {RangeCall("input", a, b, FALSE, FALSE) :
                        a \in Ranges, b \in Ranges}

\* self.overlaps_range(&other), by both implementations
OverlapsCall ==
    /\ range_call.state = "input"
    /\ range_call' = RangeCall("returned", range_call.self, range_call.other,
                          overlaps_range(range_call.self, range_call.other),
                          itree_overlaps_range(range_call.self, range_call.other))

----------------------------------------------------------------------------
(* The interval tree                                                        *)

CopyOp(source, destination_offset) ==
    [source |-> source, destination_offset |-> destination_offset]

\* impl IntervalTreeEntry for CopyOp
interval(e) == e.source

\* NodeType::Empty and NodeType::Populated(Box<BinaryNode>)
EmptyNode == [kind |-> "Empty"]

Populated(here, left_node, right_node) ==
    [kind |-> "Populated", here |-> here,
     left_node |-> left_node, right_node |-> right_node]

\* What a call on a node leaves and returns; panic: an assertion failed.
Outcome(node, result, panic) ==
    [node |-> node, result |-> result, panic |-> panic]

SeqContains(s, x) == \E i \in 1..Len(s) : s[i] = x

\* Vec::position: the first index holding x, 0 when there is none
SeqPosition(s, x) ==
    IF SeqContains(s, x)
    THEN CHOOSE i \in 1..Len(s) : s[i] = x /\ \A j \in 1..(i - 1) : s[j] # x
    ELSE 0

\* Vec::swap_remove taking out the last element whatever the index
swap_remove_last(s, i) == SubSeq(s, 1, Len(s) - 1)

\* Vec::swap_remove: the last element takes the place of the removed one
swap_remove(s, i) ==
    [k \in 1..(Len(s) - 1) |-> IF k = i THEN s[Len(s)] ELSE s[k]]

\* NodeType::is_empty looking at the node's own entries only
is_empty_here(node) ==
    IF node.kind = "Empty" THEN TRUE ELSE Len(node.here) = 0

\* NodeType::is_empty (the value it returns)
is_empty(node) == node.kind = "Empty"

\* BinaryNode::is_inline_singleton: the assertion inside it fails
inline_singleton_assert_fails(p) ==
    is_empty(p.left_node) /\ is_empty(p.right_node) /\ Len(p.here) = 0

\* BinaryNode::is_inline_singleton (the value it returns)
is_inline_singleton(p) ==
    is_empty(p.left_node) /\ is_empty(p.right_node) /\ Len(p.here) = 1

MidOf(span) == (span.start + span.end) \div 2

\* NodeType::insert leaving the entry of an inline singleton where it is
RECURSIVE NodeInsert_no_replace(_, _, _, _)
NodeInsert_no_replace(self, self_span, entry, suppress_inline_singleton_flag) ==
    IF ~contains_range(self_span, interval(entry))
    THEN Outcome(self, FALSE, TRUE)
    ELSE IF self.kind = "Empty"
    THEN Outcome(Populated(<<entry>>, EmptyNode, EmptyNode), TRUE, FALSE)
    ELSE IF ~suppress_inline_singleton_flag /\ inline_singleton_assert_fails(self)
    THEN Outcome(self, FALSE, TRUE)
    ELSE
      LET was_inline_single ==
              ~suppress_inline_singleton_flag /\ is_inline_singleton(self)
          mid == MidOf(self_span)
          left_span == Range(self_span.start, mid)
          right_span == Range(mid, self_span.end)
          can_have_children == (self_span.end - self_span.start) >= 2
          placed ==
              IF can_have_children /\ contains_range(left_span, interval(entry))
              THEN LET sub == NodeInsert_no_replace(self.left_node, left_span, entry, FALSE)
                   IN Outcome([self EXCEPT !.left_node = sub.node],
                              sub.result, sub.panic)
              ELSE IF can_have_children /\ contains_range(right_span, interval(entry))
              THEN LET sub == NodeInsert_no_replace(self.right_node, right_span, entry, FALSE)
                   IN Outcome([self EXCEPT !.right_node = sub.node],
                              sub.result, sub.panic)
              ELSE IF SeqContains(self.here, entry)
              THEN Outcome(self, FALSE, FALSE)
              ELSE Outcome([self EXCEPT !.here = Append(@, entry)], TRUE, FALSE)
      IN placed

RECURSIVE NodeInsert(_, _, _, _)
NodeInsert(self, self_span, entry, suppress_inline_singleton_flag) ==
    IF ~contains_range(self_span, interval(entry))
    THEN Outcome(self, FALSE, TRUE)
    ELSE IF self.kind = "Empty"
    THEN Outcome(Populated(<<entry>>, EmptyNode, EmptyNode), TRUE, FALSE)
    ELSE IF ~suppress_inline_singleton_flag /\ inline_singleton_assert_fails(self)
    THEN Outcome(self, FALSE, TRUE)
    ELSE
      LET was_inline_single ==
              ~suppress_inline_singleton_flag /\ is_inline_singleton(self)
          mid == MidOf(self_span)
          left_span == Range(self_span.start, mid)
          right_span == Range(mid, self_span.end)
          can_have_children == (self_span.end - self_span.start) >= 2
          placed ==
              IF can_have_children /\ contains_range(left_span, interval(entry))
              THEN LET sub == NodeInsert(self.left_node, left_span, entry, FALSE)
                   IN Outcome([self EXCEPT !.left_node = sub.node],
                              sub.result, sub.panic)
              ELSE IF can_have_children /\ contains_range(right_span, interval(entry))
              THEN LET sub == NodeInsert(self.right_node, right_span, entry, FALSE)
                   IN Outcome([self EXCEPT !.right_node = sub.node],
                              sub.result, sub.panic)
              ELSE IF SeqContains(self.here, entry)
              THEN Outcome(self, FALSE, FALSE)
              ELSE Outcome([self EXCEPT !.here = Append(@, entry)], TRUE, FALSE)
      IN IF placed.panic \/ ~(was_inline_single /\ placed.result)
         THEN placed
         ELSE \* the inlined singleton is taken out and inserted again
              LET singleton_entry == placed.node.here[1]
                  again == NodeInsert(
                      [placed.node EXCEPT !.here = swap_remove(@, 1)],
                      self_span, singleton_entry, TRUE)
              IN Outcome(again.node, placed.result,
                         again.panic \/ ~again.result)

\* NodeType::find with `else if` for the right child: the right child is
\* searched only when the left one is not
RECURSIVE NodeFind_else_if(_, _, _)
NodeFind_else_if(self, self_span, query_span) ==
    IF self.kind = "Empty"
    THEN <<>>
    ELSE
      LET mid == MidOf(self_span)
          left_span == Range(self_span.start, mid)
          right_span == Range(mid, self_span.end)
          here_hits == SelectSeq(self.here,
              LAMBDA h : itree_overlaps_range(query_span, interval(h)))
          can_have_children == (self_span.end - self_span.start) >= 2
      IN IF can_have_children /\ itree_overlaps_range(left_span, query_span)
         THEN here_hits \o NodeFind_else_if(self.left_node, left_span, query_span)
         ELSE IF can_have_children /\ itree_overlaps_range(right_span, query_span)
         THEN here_hits \o NodeFind_else_if(self.right_node, right_span, query_span)
         ELSE here_hits

\* NodeType::find: the entries pushed to result, in the order of the pushes
RECURSIVE NodeFind(_, _, _)
NodeFind(self, self_span, query_span) ==
    IF self.kind = "Empty"
    THEN <<>>
    ELSE
      LET mid == MidOf(self_span)
          left_span == Range(self_span.start, mid)
          right_span == Range(mid, self_span.end)
          here_hits == SelectSeq(self.here,
              LAMBDA h : itree_overlaps_range(query_span, interval(h)))
          left_hits ==
              IF (self_span.end - self_span.start) >= 2
                  /\ itree_overlaps_range(left_span, query_span)
              THEN NodeFind(self.left_node, left_span, query_span)
              ELSE <<>>
          right_hits ==
              IF (self_span.end - self_span.start) >= 2
                  /\ itree_overlaps_range(right_span, query_span)
              THEN NodeFind(self.right_node, right_span, query_span)
              ELSE <<>>
      IN here_hits \o left_hits \o right_hits

\* NodeType::find: one of its assertions fails somewhere in the descent
RECURSIVE NodeFindPanics(_, _, _)
NodeFindPanics(self, self_span, query_span) ==
    \/ ~itree_overlaps_range(self_span, query_span)
    \/ /\ self.kind = "Populated"
       /\ (self_span.end - self_span.start) >= 2
       /\ LET mid == MidOf(self_span)
              left_span == Range(self_span.start, mid)
              right_span == Range(mid, self_span.end)
          IN \/ /\ itree_overlaps_range(left_span, query_span)
                /\ NodeFindPanics(self.left_node, left_span, query_span)
             \/ /\ itree_overlaps_range(right_span, query_span)
                /\ NodeFindPanics(self.right_node, right_span, query_span)

\* The demotion taking an inline singleton out of one child while the other
\* child is populated
Demote_beside_sibling(p) ==
    IF Len(p.here) # 0
    THEN Outcome(p, TRUE, FALSE)
    ELSE IF is_empty(p.left_node) /\ is_empty(p.right_node)
    THEN Outcome(p, TRUE, TRUE)
    ELSE IF ~is_empty(p.left_node)
    THEN IF inline_singleton_assert_fails(p.left_node)
         THEN Outcome(p, TRUE, TRUE)
         ELSE IF is_inline_singleton(p.left_node)
         THEN Outcome([p EXCEPT !.here = Append(@, p.left_node.here[1]),
                                !.left_node = EmptyNode], TRUE, FALSE)
         ELSE Outcome(p, TRUE, FALSE)
    ELSE IF inline_singleton_assert_fails(p.right_node)
    THEN Outcome(p, TRUE, TRUE)
    ELSE IF is_inline_singleton(p.right_node)
    THEN Outcome([p EXCEPT !.here = Append(@, p.right_node.here[1]),
                           !.right_node = EmptyNode], TRUE, FALSE)
    ELSE Outcome(p, TRUE, FALSE)

\* remove considering no demotion at all
Demote_never(p) == Outcome(p, TRUE, FALSE)

\* The demotion at the end of NodeType::remove, on the node p after a removal
Demote(p) ==
    IF Len(p.here) # 0
    THEN Outcome(p, TRUE, FALSE)
    ELSE IF is_empty(p.left_node) /\ is_empty(p.right_node)
    THEN Outcome(p, TRUE, TRUE)   \* "Node is entirely empty, should be unreachable"
    ELSE IF ~is_empty(p.left_node) /\ is_empty(p.right_node)
    THEN IF inline_singleton_assert_fails(p.left_node)
         THEN Outcome(p, TRUE, TRUE)
         ELSE IF is_inline_singleton(p.left_node)
         THEN Outcome([p EXCEPT !.here = Append(@, p.left_node.here[1]),
                                !.left_node = EmptyNode], TRUE, FALSE)
         ELSE Outcome(p, TRUE, FALSE)
    ELSE IF is_empty(p.left_node) /\ ~is_empty(p.right_node)
    THEN IF inline_singleton_assert_fails(p.right_node)
         THEN Outcome(p, TRUE, TRUE)
         ELSE IF is_inline_singleton(p.right_node)
         THEN Outcome([p EXCEPT !.here = Append(@, p.right_node.here[1]),
                                !.right_node = EmptyNode], TRUE, FALSE)
         ELSE Outcome(p, TRUE, FALSE)
    ELSE Outcome(p, TRUE, FALSE)

RECURSIVE NodeRemove(_, _, _)
NodeRemove(self, self_span, entry) ==
    IF ~contains_range(self_span, interval(entry))
    THEN Outcome(self, FALSE, TRUE)
    ELSE IF self.kind = "Empty"
    THEN Outcome(self, FALSE, FALSE)
    ELSE IF inline_singleton_assert_fails(self)
    THEN Outcome(self, FALSE, TRUE)
    ELSE IF is_inline_singleton(self)
    THEN IF self.here[1] = entry
         THEN Outcome(EmptyNode, TRUE, FALSE)
         ELSE Outcome(self, FALSE, FALSE)
    ELSE
      LET mid == MidOf(self_span)
          left_span == Range(self_span.start, mid)
          right_span == Range(mid, self_span.end)
          can_have_children == (self_span.end - self_span.start) >= 2
          taken ==
              IF can_have_children /\ contains_range(left_span, interval(entry))
              THEN LET sub == NodeRemove(self.left_node, left_span, entry)
                   IN Outcome([self EXCEPT !.left_node = sub.node],
                              sub.result, sub.panic)
              ELSE IF can_have_children /\ contains_range(right_span, interval(entry))
              THEN LET sub == NodeRemove(self.right_node, right_span, entry)
                   IN Outcome([self EXCEPT !.right_node = sub.node],
                              sub.result, sub.panic)
              ELSE LET idx == SeqPosition(self.here, entry)
                   IN IF idx # 0
                      THEN Outcome([self EXCEPT !.here = swap_remove(@, idx)],
                                   TRUE, FALSE)
                      ELSE Outcome(self, FALSE, FALSE)
      IN IF taken.panic \/ ~taken.result
         THEN taken
         ELSE Demote(taken.node)

\* IntervalTree::insert
TreeInsert(span, root_node, entry) ==
    IF range_is_empty(interval(entry))
    THEN Outcome(root_node, FALSE, TRUE)
    ELSE NodeInsert(root_node, span, entry, FALSE)

\* IntervalTree::remove
TreeRemove(span, root_node, entry) ==
    IF range_is_empty(interval(entry))
    THEN Outcome(root_node, FALSE, TRUE)
    ELSE NodeRemove(root_node, span, entry)

\* IntervalTree::find (the entries found, in order)
TreeFind(span, root_node, query_span) == NodeFind(root_node, span, query_span)

\* IntervalTree::find panics
TreeFindPanics(span, root_node, query_span) ==
    range_is_empty(query_span) \/ NodeFindPanics(root_node, span, query_span)

\* Every entry stored anywhere under a node
RECURSIVE Entries(_)
Entries(node) ==
    IF node.kind = "Empty"
    THEN {}
    ELSE {node.here[i] : i \in 1..Len(node.here)}
         \cup Entries(node.left_node) \cup Entries(node.right_node)

\* IntervalTree::first: some entry of the tree, whichever; the set of the
\* entries it may return
first(root_node) == Entries(root_node)

----------------------------------------------------------------------------
(* The interval tree on its own: any sequence of inserts and removes        *)

TreeSpan == Range(0, TreeSpanLength)

\* Entries over the span: every non-empty interval, two destinations each, so
\* that two entries may share an interval and differ as values.
TreeEntries ==
    {e \in {CopyOp(Range(a, b), d) :
                a \in 0..(TreeSpanLength - 1), b \in 1..TreeSpanLength,
                d \in 0..1} : e.source.start < e.source.end}

Queries ==
    {q \in {Range(a, b) :
                a \in 0..(TreeSpanLength - 1), b \in 1..TreeSpanLength} :
        q.start < q.end}

\* The last call on the tree: which, whether its entry was live before it,
\* what it returned, and whether it panicked instead of returning.
TreeCall(op, was_live, result, panic) ==
    [op |-> op, was_live |-> was_live, result |-> result, panic |-> panic]

NoCall == TreeCall("none", FALSE, FALSE, FALSE)

TreeInit ==
    /\ tree = EmptyNode
    /\ live = {}
    /\ tree_call = NoCall

TreeRunning == ~tree_call.panic

TreeInsertCall(e) ==
    /\ TreeRunning
    /\ e \in live \/ Cardinality(live) < MaxLive
    /\ LET r == TreeInsert(TreeSpan, tree, e)
       IN /\ tree' = r.node
          /\ live' = IF r.panic THEN live ELSE live \cup {e}
          /\ tree_call' = TreeCall("insert", e \in live, r.result, r.panic)

TreeRemoveCall(e) ==
    /\ TreeRunning
    /\ LET r == TreeRemove(TreeSpan, tree, e)
       IN /\ tree' = r.node
          /\ live' = IF r.panic THEN live ELSE live \ {e}
          /\ tree_call' = TreeCall("remove", e \in live, r.result, r.panic)

LiftIdle ==
    /\ phase = "idle"
    /\ status = "idle"
    /\ dry_run = FALSE
    /\ device_length = 0
    /\ device = <<>>
    /\ write_ops = 0
    /\ report = <<>>
    /\ expected_next_offset = 0
    /\ zeroing_queue = <<>>
    /\ final_csum_queue = <<>>
    /\ copy_queue = EmptyNode

----------------------------------------------------------------------------
(* Positional I/O: FileOps of src/utils.rs                                  *)

Min(a, b) == IF a < b THEN a ELSE b
Max(a, b) == IF a > b THEN a ELSE b

\* The device file with FileOps' dry_run flag and write counter; err: an I/O
\* call returned Err.
IO(dev, wops, dry, err) ==
    [device |-> dev, write_ops |-> wops, dry_run |-> dry, err |-> err]

\* File::read_exact_at succeeds: the whole range lies inside the file
CanRead(dev, offset, length) == offset + length <= Len(dev)

\* File::read_exact_at: the bytes read
ReadAt(dev, offset, length) == SubSeq(dev, offset + 1, offset + length)

\* File::write_all_at on a regular file (do_lift takes the length to lift from
\* metadata().len(), the size of a regular file): a write past the end
\* grows the file, a hole reads as zeros
WriteAt(dev, buf, offset) ==
    IF Len(buf) = 0
    THEN dev
    ELSE [i \in 1..Max(Len(dev), offset + Len(buf)) |->
            IF i > offset /\ i <= offset + Len(buf) THEN buf[i - offset]
            ELSE IF i <= Len(dev) THEN dev[i]
            ELSE 0]

\* FileOps::copy_segment, from the iteration that starts with `read` bytes done
RECURSIVE copy_segment_from(_, _, _, _)
copy_segment_from(io, source, dest_offset, read) ==
    LET length == source.end - source.start
        chunk_len == Min(BUFFER_LENGTH, length - read)
    IN IF ~(read < length)
       THEN io
       ELSE IF ~CanRead(io.device, source.start + read, chunk_len)
       THEN [io EXCEPT !.err = TRUE]
       ELSE LET chunk == ReadAt(io.device, source.start + read, chunk_len)
                written ==
                    IF ~io.dry_run
                    THEN [io EXCEPT
                            !.device = WriteAt(@, chunk, dest_offset + read),
                            !.write_ops = @ + 1]
                    ELSE io
            IN copy_segment_from(written, source, dest_offset, read + chunk_len)

\* copy_segment writing one byte after the destination it is given
copy_segment_shifted(io, source, dest_offset) ==
    copy_segment_from(io, source, dest_offset + 1, 0)

copy_segment(io, source, dest_offset) ==
    copy_segment_from(io, source, dest_offset, 0)

\* FileOps::swap_segment, from the iteration that starts with `read` bytes done
RECURSIVE swap_segment_from(_, _, _, _)
swap_segment_from(io, source, dest_offset, read) ==
    LET length == source.end - source.start
        chunk_len == Min(BUFFER_LENGTH, length - read)
    IN IF ~(read < length)
       THEN io
       ELSE IF ~CanRead(io.device, source.start + read, chunk_len)
               \/ ~CanRead(io.device, dest_offset + read, chunk_len)
       THEN [io EXCEPT !.err = TRUE]
       ELSE LET chunk_a == ReadAt(io.device, source.start + read, chunk_len)
                chunk_b == ReadAt(io.device, dest_offset + read, chunk_len)
                written ==
                    IF ~io.dry_run
                    THEN [io EXCEPT
                            !.device = WriteAt(
                                WriteAt(@, chunk_a, dest_offset + read),
                                chunk_b, source.start + read),
                            !.write_ops = @ + 2]
                    ELSE io
            IN swap_segment_from(written, source, dest_offset, read + chunk_len)

\* swap_segment writing the source to the destination and nothing back
swap_segment_one_way(io, source, dest_offset) ==
    copy_segment(io, source, dest_offset)

swap_segment(io, source, dest_offset) ==
    swap_segment_from(io, source, dest_offset, 0)

\* FileOps::fill_zeros, from the iteration that starts at out_offset
RECURSIVE fill_zeros_from(_, _, _)
fill_zeros_from(io, range, out_offset) ==
    LET chunk_len == Min(BUFFER_LENGTH, range.end - out_offset)
    IN IF ~(out_offset < range.end)
       THEN io
       ELSE fill_zeros_from(
                [io EXCEPT
                    !.device = WriteAt(@, [i \in 1..chunk_len |-> 0], out_offset),
                    !.write_ops = @ + 1],
                range, out_offset + chunk_len)

\* fill_zeros without its early return in dry-run mode
fill_zeros_always(io, range) == fill_zeros_from(io, range, range.start)

fill_zeros(io, range) ==
    IF io.dry_run THEN io ELSE fill_zeros_from(io, range, range.start)

\* DefaultHasher, narrowed from 64 to 16 bits: a new hasher, Hasher::write of
\* one value, and <[u8] as Hash>::hash, which writes the length and the bytes
HashMod == 2 ^ 16

HasherNew == 7

HasherWrite(h, x) == (h * 31 + x + 1) % HashMod

RECURSIVE HashBytes(_, _, _)
HashBytes(h, chunk, i) ==
    IF i > Len(chunk) THEN h ELSE HashBytes(HasherWrite(h, chunk[i]), chunk, i + 1)

HashChunk(h, chunk) == HashBytes(HasherWrite(h, Len(chunk)), chunk, 1)

\* The hash FileOps::validate_checksum computes over offset..offset+length,
\* from the iteration that starts with `read` bytes done; -1: a read failed
RECURSIVE checksum_from(_, _, _, _, _)
checksum_from(dev, offset, length, read, hasher) ==
    LET chunk_len == Min(BUFFER_LENGTH, length - read)
    IN IF ~(read < length)
       THEN hasher
       ELSE IF ~CanRead(dev, offset + read, chunk_len)
       THEN -1
       ELSE checksum_from(dev, offset, length, read + chunk_len,
                HashChunk(hasher, ReadAt(dev, offset + read, chunk_len)))

\* FileOps::validate_checksum: "ok", "error" (a read failed) or "panic"
\* ("Checksums should match")
validate_checksum(dev, offset, length, expected_csum) ==
    LET hash == checksum_from(dev, offset, length, 0, HasherNew)
    IN IF hash = -1 THEN "error"
       ELSE IF hash # expected_csum THEN "panic"
       ELSE "ok"

----------------------------------------------------------------------------
(* do_lift: src/lift.rs                                                     *)

\* The initial contents of a device of n bytes: byte i carries the label i + 1,
\* so that every byte is non-zero and tells where it came from.
InitialDevice(n) == [i \in 1..n |-> i]

\* report.rs: ExtentSource and ReportExtent
Zeros == [kind |-> "Zeros", offset |-> 0, checksum |-> 0]

Offset(offset, checksum) ==
    [kind |-> "Offset", offset |-> offset, checksum |-> checksum]

ReportExtent(destination_offset, length, source) ==
    [destination_offset |-> destination_offset, length |-> length,
     source |-> source]

CsumOp(offset, length, csum) ==
    [offset |-> offset, length |-> length, csum |-> csum]

Running == status = "running"

Failed == status \notin {"running", "ok", "idle"}

LiftSpan == Range(0, device_length)

----------------------------------------------------------------------------
(* do_scan: src/scan.rs                                                     *)

\* fiemap.rs: struct FiemapExtent, with the flags do_scan looks at
FiemapExtent(fe_logical, fe_physical, fe_length, unwritten, encoded, last) ==
    [fe_logical |-> fe_logical, fe_physical |-> fe_physical,
     fe_length |-> fe_length, unwritten |-> unwritten, encoded |-> encoded,
     last |-> last]

\* What the host holds for each byte of a file of n bytes: a hole, the first
\* byte of a written, an unwritten or an encoded extent, or one more byte of
\* the extent before it.
Layouts(n) ==
    {layout \in [1..n -> {"hole", "data", "unwritten", "encoded", "more"}] :
        \A i \in 1..n :
            layout[i] = "more" => (i > 1 /\ layout[i - 1] # "hole")}

\* The byte after the extent that starts at byte i of the layout
RECURSIVE ExtentEnd(_, _)
ExtentEnd(layout, i) ==
    IF i + 1 <= Len(layout) /\ layout[i + 1] = "more"
    THEN ExtentEnd(layout, i + 1)
    ELSE i + 1

\* The extent map of a layout, in the order of the logical offsets.  An extent
\* that reaches the end of the file is `over` bytes longer than what is left
\* of the file (extents are whole blocks), the physical offset is the logical
\* one moved by `shift`, and the last extent carries FIEMAP_EXTENT_LAST when
\* flag_last says so.
RECURSIVE ExtentsFrom(_, _, _, _, _)
ExtentsFrom(layout, i, over, shift, flag_last) ==
    IF i > Len(layout)
    THEN <<>>
    ELSE IF layout[i] \in {"hole", "more"}
    THEN ExtentsFrom(layout, i + 1, over, shift, flag_last)
    ELSE LET end == ExtentEnd(layout, i)
             rest == ExtentsFrom(layout, end, over, shift, flag_last)
             to_eof == end = Len(layout) + 1
         IN <<FiemapExtent(i - 1, (i - 1 + shift) % Len(layout),
                           end - i + (IF to_eof THEN over ELSE 0),
                           layout[i] = "unwritten", layout[i] = "encoded",
                           flag_last /\ Len(rest) = 0)>> \o rest

HostMaps(n) ==
    {ExtentsFrom(layout, 1, over, shift, flag_last) :
        layout \in Layouts(n), over \in 0..1, shift \in 0..1,
        flag_last \in BOOLEAN}

\* ioctl(FS_IOC_FIEMAP) for fm_start..fm_start+fm_length: the extents of the
\* file that overlap the range, as many as fm_extents takes
fiemap(fm_start, fm_length) ==
    LET mapped == SelectSeq(host_extents,
            LAMBDA e : /\ e.fe_logical + e.fe_length > fm_start
                       /\ e.fe_logical < fm_start + fm_length)
    IN SubSeq(mapped, 1, Min(Len(mapped), MaxMappedExtents))

ScanRunning == scan_status = "running"

ScanIdle ==
    /\ scan_pc = "idle"
    /\ scan_status = "idle"
    /\ file_length = 0
    /\ host_extents = <<>>
    /\ file_offset = 0
    /\ fm_extents = <<>>
    /\ scan_out = <<>>

ScanInit ==
    /\ scan_pc = "start"
    /\ scan_status = "running"
    /\ file_length \in 0..MaxFileLength
    /\ host_extents \in HostMaps(file_length)
    /\ file_offset = 0
    /\ fm_extents = <<>>
    /\ scan_out = <<>>

\* scan.rs 23-32: the lengths of the file and of the device are compared and
\* the summary is written
ScanStart(scan_device_length) ==
    /\ scan_pc = "start" /\ ScanRunning
    /\ IF file_length # scan_device_length
       THEN scan_status' = "error_length" /\ scan_pc' = scan_pc
       ELSE scan_status' = scan_status /\ scan_pc' = "loop"
    /\ UNCHANGED <<file_length, host_extents, file_offset, fm_extents, scan_out>>

\* scan.rs 35-55: the loop goes on and asks the host for the extents from
\* file_offset to the end of the file
ScanRequest ==
    /\ scan_pc = "loop" /\ ScanRunning
    /\ file_offset < file_length
    /\ fm_extents' = fiemap(file_offset, file_length - file_offset)
    /\ scan_pc' = "extents"
    /\ UNCHANGED <<scan_status, file_length, host_extents, file_offset, scan_out>>

\* scan.rs 53-55: the ioctl fails
ScanRequestFails ==
    /\ scan_pc = "loop" /\ ScanRunning
    /\ file_offset < file_length
    /\ scan_status' = "error_ioctl"
    /\ UNCHANGED <<scan_pc, file_length, host_extents, file_offset, fm_extents,
                   scan_out>>

\* scan.rs 75: the bytes of the extent that lie inside the file, all of them
\* taken to lie inside
readable_length_whole(e) == e.fe_length

\* scan.rs 75: the bytes of the extent that lie inside the file
readable_length(e) == Min(file_length - e.fe_logical, e.fe_length)

\* scan.rs 57-115: one iteration of the loop over the extents returned; equal:
\* the file and the device hold the same bytes for the extent
ScanExtent(equal) ==
    /\ scan_pc = "extents" /\ ScanRunning
    /\ Len(fm_extents) # 0
    /\ LET e == Head(fm_extents)
           hole == IF e.fe_logical > file_offset
                   THEN <<ReportExtent(file_offset, e.fe_logical - file_offset,
                                       Zeros)>>
                   ELSE <<>>
           csum == checksum_from(InitialDevice(file_length), e.fe_physical,
                                 readable_length(e), 0, HasherNew)
           extent == IF e.unwritten
                     THEN ReportExtent(e.fe_logical, readable_length(e), Zeros)
                     ELSE ReportExtent(e.fe_logical, readable_length(e),
                                       Offset(e.fe_physical, csum))
           after == e.fe_logical + readable_length(e)
           tail == IF e.last
                   THEN <<ReportExtent(after, file_length - after, Zeros)>>
                   ELSE <<>>
       IN IF ~(e.fe_logical >= file_offset) \/ ~(e.fe_logical < file_length)
          THEN /\ scan_status' = "panic_extent"
               /\ UNCHANGED <<file_offset, fm_extents, scan_out>>
          ELSE IF e.encoded
          THEN /\ scan_status' = "panic_encoded"
               /\ scan_out' = scan_out \o hole
               /\ UNCHANGED <<file_offset, fm_extents>>
          ELSE IF ~e.unwritten /\ (csum = -1 \/ ~equal)
          THEN /\ scan_status' = IF csum = -1 THEN "error_read"
                                 ELSE "panic_equality"
               /\ scan_out' = scan_out \o hole
               /\ UNCHANGED <<file_offset, fm_extents>>
          ELSE /\ scan_out' = scan_out \o hole \o <<extent>> \o tail
               /\ file_offset' = IF e.last THEN file_length ELSE after
               /\ fm_extents' = Tail(fm_extents)
               /\ scan_status' = scan_status
    /\ UNCHANGED <<scan_pc, file_length, host_extents>>

\* scan.rs 57, 116: the extents returned have all been gone through
ScanExtentsDone ==
    /\ scan_pc = "extents" /\ ScanRunning
    /\ Len(fm_extents) = 0
    /\ scan_pc' = "loop"
    /\ UNCHANGED <<scan_status, file_length, host_extents, file_offset,
                   fm_extents, scan_out>>

\* scan.rs 35, 118: the loop ends, do_scan returns Ok(())
ScanDone ==
    /\ scan_pc = "loop" /\ ScanRunning
    /\ ~(file_offset < file_length)
    /\ scan_pc' = "done"
    /\ scan_status' = "ok"
    /\ UNCHANGED <<file_length, host_extents, file_offset, fm_extents, scan_out>>

ScanNext ==
    \/ \E n \in {file_length, file_length + 1} :
          ScanStart(n) /\ UNCHANGED not_scan_vars
    \/ ScanRequest /\ UNCHANGED not_scan_vars
    \/ ScanRequestFails /\ UNCHANGED not_scan_vars
    \/ \E equal \in BOOLEAN : ScanExtent(equal) /\ UNCHANGED not_scan_vars
    \/ ScanExtentsDone /\ UNCHANGED not_scan_vars
    \/ ScanDone /\ UNCHANGED not_scan_vars

----------------------------------------------------------------------------
(* do_lift, continued                                                       *)

Init ==
    /\ phase = "summary"
    /\ status = "running"
    /\ dry_run \in BOOLEAN
    /\ device_length \in 1..MaxDeviceLength
    /\ device = InitialDevice(device_length)
    /\ write_ops = 0
    /\ report = <<>>
    /\ expected_next_offset = 0
    /\ zeroing_queue = <<>>
    /\ final_csum_queue = <<>>
    /\ copy_queue = EmptyNode
    /\ TreeInit
    /\ RangeIdle
    /\ ScanIdle

\* The planner's loop stopping one byte short of the device length
planner_loop_condition_short == expected_next_offset < device_length - 1

\* The tiling assertion catching an overlap but not a gap
tiling_assert_overlap_only(e) == e.destination_offset < expected_next_offset

\* The copy loop stopping while one inline op is still queued
copy_loop_condition_early ==
    ~is_empty(copy_queue) /\ ~is_inline_singleton(copy_queue)

\* The no-op test comparing the end of the source, not its start
is_noop_end(op) == op.source.end = op.destination_offset

\* lift.rs 27: the condition of the planner's loop
planner_loop_condition == expected_next_offset < device_length

\* The tiling assertion catching a gap but not an overlap
tiling_assert_gap_only(e) == e.destination_offset > expected_next_offset

\* lift.rs 29: the assertion on the destination of the record read fails
tiling_assert_fails(e) == e.destination_offset # expected_next_offset

\* lift.rs 58: the condition of the copy loop
copy_loop_condition == ~is_empty(copy_queue)

\* lift.rs 61: op is a no-op, its bytes are in place
is_noop(op) == op.source.start = op.destination_offset

\* lift.rs 17-18: the summary is read and its device_length checked
ReadSummary(sr_device_length) ==
    /\ phase = "summary" /\ Running
    /\ IF sr_device_length = device_length
       THEN phase' = "planner" /\ status' = status
       ELSE phase' = phase /\ status' = "panic_device_length"
    /\ UNCHANGED <<dry_run, device_length, device, write_ops, report,
                   expected_next_offset, zeroing_queue, final_csum_queue,
                   copy_queue>>

\* lift.rs 17 and 28: the report ends (or does not parse) where a record is due
ReportEnds ==
    /\ Running
    /\ \/ phase = "summary"
       \/ phase = "planner" /\ planner_loop_condition
    /\ status' = "error_report"
    /\ UNCHANGED <<phase, dry_run, device_length, device, write_ops, report,
                   expected_next_offset, zeroing_queue, final_csum_queue,
                   copy_queue>>

\* lift.rs 27-52: one iteration of the planner's loop, on the record e
PlannerRecord(e) ==
    /\ phase = "planner" /\ Running
    /\ planner_loop_condition
    /\ Len(report) < MaxRecords
    /\ IF tiling_assert_fails(e)
       THEN /\ status' = "panic_tiling"
            /\ UNCHANGED <<report, expected_next_offset, zeroing_queue,
                           final_csum_queue, copy_queue>>
       ELSE /\ report' = Append(report, e)
            /\ expected_next_offset' = expected_next_offset + e.length
            /\ IF e.source.kind = "Zeros"
               THEN /\ zeroing_queue' = Append(zeroing_queue,
                          Range(e.destination_offset, e.destination_offset + e.length))
                    /\ UNCHANGED <<status, final_csum_queue, copy_queue>>
               ELSE LET valid == validate_checksum(device, e.source.offset,
                                     e.length, e.source.checksum)
                        ins == TreeInsert(LiftSpan, copy_queue,
                                   CopyOp(Range(e.source.offset,
                                                e.source.offset + e.length),
                                          e.destination_offset))
                    IN IF valid # "ok"
                       THEN /\ status' = IF valid = "error" THEN "error_read"
                                         ELSE "panic_checksum"
                            /\ UNCHANGED <<zeroing_queue, final_csum_queue,
                                           copy_queue>>
                       ELSE /\ final_csum_queue' = Append(final_csum_queue,
                                  CsumOp(e.destination_offset, e.length,
                                         e.source.checksum))
                            /\ IF ins.panic \/ ~ins.result
                               THEN status' = "panic_insert"
                                    /\ UNCHANGED copy_queue
                               ELSE status' = status
                                    /\ copy_queue' = ins.node
                            /\ UNCHANGED zeroing_queue
    /\ UNCHANGED <<phase, dry_run, device_length, device, write_ops>>

\* The checksum a scan of the initial device records for offset..offset+length
ScannedChecksum(offset, length) ==
    LET h == checksum_from(InitialDevice(device_length), offset, length, 0,
                           HasherNew)
    IN IF h = -1 THEN 0 ELSE h

\* The records the report reader may deliver next: a destination at, before or
\* after the expected one, a length from 0 to one past the end of the device,
\* zeros or any source offset, with the scanned checksum or another one.
NextRecords ==
    {ReportExtent(d, l, src) :
        d \in {expected_next_offset, expected_next_offset + 1,
               Max(expected_next_offset - 1, 0)},
        l \in 0..(device_length - expected_next_offset + 1),
        src \in {Zeros}} \cup
    UNION {{ReportExtent(d, l, Offset(p, ScannedChecksum(p, l))),
            ReportExtent(d, l, Offset(p, (ScannedChecksum(p, l) + 1) % HashMod))} :
        d \in {expected_next_offset, expected_next_offset + 1,
               Max(expected_next_offset - 1, 0)},
        l \in 0..(device_length - expected_next_offset + 1),
        p \in 0..(device_length - 1)}

\* lift.rs 27, 54-56: the planner's loop ends
PlannerDone ==
    /\ phase = "planner" /\ Running
    /\ ~planner_loop_condition
    /\ phase' = "copy"
    /\ UNCHANGED <<status, dry_run, device_length, device, write_ops, report,
                   expected_next_offset, zeroing_queue, final_csum_queue,
                   copy_queue>>

\* lift.rs 67: the range op is to be copied to
dest_range_of(op) ==
    Range(op.destination_offset,
          op.source.end - op.source.start + op.destination_offset)

\* The index asked for the ops reading the first byte of the destination of
\* op, not for those reading any byte of it
overlapping_sources_first_byte(op) ==
    TreeFind(LiftSpan, copy_queue,
             Range(op.destination_offset, op.destination_offset + 1))

\* lift.rs 68: the queued ops whose source overlaps the destination of op
overlapping_sources(op) == TreeFind(LiftSpan, copy_queue, dest_range_of(op))

\* chop_op: one of its two assertions fails
chop_op_panics(op, prefix_len) ==
    ~(prefix_len > 0) \/ ~(op.source.start + prefix_len < op.source.end)

\* chop_op giving the second half the destination of the first
chop_op_same_destination(op, prefix_len) ==
    <<CopyOp(Range(op.source.start, op.source.start + prefix_len),
             op.destination_offset),
      CopyOp(Range(op.source.start + prefix_len, op.source.end),
             op.destination_offset)>>

\* chop_op: the two ops returned
chop_op(op, prefix_len) ==
    <<CopyOp(Range(op.source.start, op.source.start + prefix_len),
             op.destination_offset),
      CopyOp(Range(op.source.start + prefix_len, op.source.end),
             op.destination_offset + prefix_len)>>

\* The third split rule cutting op at the length of its destination
SplitChoice_end_by_dest(op, other_op) ==
    LET dest_range == dest_range_of(op)
    IN IF dest_range.start < other_op.source.start
       THEN [rule |-> 1, victim |-> op,
             prefix_len |-> other_op.source.start - dest_range.start]
       ELSE IF other_op.source.start < dest_range.start
       THEN [rule |-> 2, victim |-> other_op,
             prefix_len |-> dest_range.start - other_op.source.start]
       ELSE IF dest_range.end > other_op.source.end
       THEN [rule |-> 3, victim |-> op,
             prefix_len |-> dest_range.end - dest_range.start]
       ELSE IF other_op.source.end > dest_range.end
       THEN [rule |-> 4, victim |-> other_op,
             prefix_len |-> dest_range.end - dest_range.start]
       ELSE [rule |-> 0, victim |-> op, prefix_len |-> 0]

\* lift.rs 90-120: which op is split and where; rule 0 is panic!("BUG")
SplitChoice(op, other_op) ==
    LET dest_range == dest_range_of(op)
    IN IF dest_range.start < other_op.source.start
       THEN [rule |-> 1, victim |-> op,
             prefix_len |-> other_op.source.start - dest_range.start]
       ELSE IF other_op.source.start < dest_range.start
       THEN [rule |-> 2, victim |-> other_op,
             prefix_len |-> dest_range.start - other_op.source.start]
       ELSE IF dest_range.end > other_op.source.end
       THEN [rule |-> 3, victim |-> op,
             prefix_len |-> other_op.source.end - other_op.source.start]
       ELSE IF other_op.source.end > dest_range.end
       THEN [rule |-> 4, victim |-> other_op,
             prefix_len |-> dest_range.end - dest_range.start]
       ELSE [rule |-> 0, victim |-> op, prefix_len |-> 0]

\* The skip of identical ranges comparing the starts of the ranges only
FirstSplittable_by_start(op) ==
    LET others == overlapping_sources(op)
        hits == {i \in 1..Len(others) :
                    others[i].source.start # dest_range_of(op).start}
    IN IF hits = {} THEN 0
       ELSE CHOOSE i \in hits : \A j \in hits : i <= j

\* lift.rs 78-83: the index in overlapping_sources of the first op whose
\* source is not exactly the destination range, 0 when there is none
FirstSplittable(op) ==
    LET others == overlapping_sources(op)
        hits == {i \in 1..Len(others) : others[i].source # dest_range_of(op)}
    IN IF hits = {} THEN 0
       ELSE CHOOSE i \in hits : \A j \in hits : i <= j

\* lift.rs 79: the assertion fails on one of the first n overlapping sources
OverlapAssertFails(op, n) ==
    LET others == overlapping_sources(op)
    IN \E i \in 1..n : ~overlaps_range(dest_range_of(op), others[i].source)

\* lift.rs 90-124: the index after the split that the op at index k of
\* overlapping_sources asks for
SplitStep(op, k) ==
    LET other_op == overlapping_sources(op)[k]
        choice == SplitChoice(op, other_op)
        removed == TreeRemove(LiftSpan, copy_queue, choice.victim)
        halves == chop_op(choice.victim, choice.prefix_len)
        ins1 == TreeInsert(LiftSpan, removed.node, halves[1])
        ins2 == TreeInsert(LiftSpan, ins1.node, halves[2])
    IN IF choice.rule = 0 THEN Outcome(copy_queue, FALSE, TRUE)
       ELSE IF removed.panic \/ ~removed.result THEN Outcome(copy_queue, FALSE, TRUE)
       ELSE IF chop_op_panics(choice.victim, choice.prefix_len)
       THEN Outcome(removed.node, FALSE, TRUE)
       ELSE IF ins1.panic \/ ~ins1.result THEN Outcome(ins1.node, FALSE, TRUE)
       ELSE IF ins2.panic \/ ~ins2.result THEN Outcome(ins2.node, FALSE, TRUE)
       ELSE Outcome(ins2.node, TRUE, FALSE)

\* The rewrite taking out of the index the op it is about to put in
RECURSIVE RewriteSources_remove_new(_, _, _, _)
RewriteSources_remove_new(root_node, op, others, i) ==
    IF i > Len(others)
    THEN Outcome(root_node, TRUE, FALSE)
    ELSE LET other_op == others[i]
             new_op == [other_op EXCEPT !.source = op.source]
             removed == TreeRemove(LiftSpan, root_node, new_op)
             ins == TreeInsert(LiftSpan, removed.node, new_op)
         IN IF op = other_op \/ dest_range_of(op) # other_op.source
            THEN Outcome(root_node, FALSE, TRUE)
            ELSE IF removed.panic \/ ~removed.result
            THEN Outcome(root_node, FALSE, TRUE)
            ELSE IF ins.panic \/ ~ins.result
            THEN Outcome(ins.node, FALSE, TRUE)
            ELSE RewriteSources_remove_new(ins.node, op, others, i + 1)

\* The rewrite putting each overlapping source back with the source it had
RECURSIVE RewriteSources_same_source(_, _, _, _)
RewriteSources_same_source(root_node, op, others, i) ==
    IF i > Len(others)
    THEN Outcome(root_node, TRUE, FALSE)
    ELSE LET other_op == others[i]
             removed == TreeRemove(LiftSpan, root_node, other_op)
             ins == TreeInsert(LiftSpan, removed.node, other_op)
         IN IF op = other_op \/ dest_range_of(op) # other_op.source
            THEN Outcome(root_node, FALSE, TRUE)
            ELSE IF removed.panic \/ ~removed.result
            THEN Outcome(root_node, FALSE, TRUE)
            ELSE IF ins.panic \/ ~ins.result
            THEN Outcome(ins.node, FALSE, TRUE)
            ELSE RewriteSources_same_source(ins.node, op, others, i + 1)

\* lift.rs 130-137: the index after the overlapping sources from index i on
\* have been given the source of op
RECURSIVE RewriteSources(_, _, _, _)
RewriteSources(root_node, op, others, i) ==
    IF i > Len(others)
    THEN Outcome(root_node, TRUE, FALSE)
    ELSE LET other_op == others[i]
             removed == TreeRemove(LiftSpan, root_node, other_op)
             new_op == [other_op EXCEPT !.source = op.source]
             ins == TreeInsert(LiftSpan, removed.node, new_op)
         IN IF op = other_op \/ dest_range_of(op) # other_op.source
            THEN Outcome(root_node, FALSE, TRUE)
            ELSE IF removed.panic \/ ~removed.result
            THEN Outcome(root_node, FALSE, TRUE)
            ELSE IF ins.panic \/ ~ins.result
            THEN Outcome(ins.node, FALSE, TRUE)
            ELSE RewriteSources(ins.node, op, others, i + 1)

CopyLoop(op) ==
    /\ phase = "copy" /\ Running
    /\ copy_loop_condition
    /\ op \in first(copy_queue)

\* lift.rs 61-65, Step A: op is already in place
StepA(op) ==
    /\ CopyLoop(op)
    /\ is_noop(op)
    /\ LET removed == TreeRemove(LiftSpan, copy_queue, op)
       IN IF removed.panic \/ ~removed.result
          THEN status' = "panic_index" /\ UNCHANGED copy_queue
          ELSE status' = status /\ copy_queue' = removed.node
    /\ UNCHANGED <<phase, dry_run, device_length, device, write_ops, report,
                   expected_next_offset, zeroing_queue, final_csum_queue>>

\* lift.rs 67-75, Step B: no queued op reads the destination, copy
StepB(op) ==
    /\ CopyLoop(op)
    /\ ~is_noop(op)
    /\ \/ TreeFindPanics(LiftSpan, copy_queue, dest_range_of(op))
       \/ Len(overlapping_sources(op)) = 0
    /\ LET removed == TreeRemove(LiftSpan, copy_queue, op)
           io == copy_segment(IO(device, write_ops, dry_run, FALSE),
                              op.source, op.destination_offset)
       IN IF TreeFindPanics(LiftSpan, copy_queue, dest_range_of(op))
             \/ removed.panic \/ ~removed.result
          THEN status' = "panic_index"
               /\ UNCHANGED <<copy_queue, device, write_ops>>
          ELSE /\ copy_queue' = removed.node
               /\ device' = io.device
               /\ write_ops' = io.write_ops
               /\ status' = IF io.err THEN "error_io" ELSE status
    /\ UNCHANGED <<phase, dry_run, device_length, report,
                   expected_next_offset, zeroing_queue, final_csum_queue>>

\* lift.rs 78-125, Step C: an overlapping source is not the destination itself,
\* split one of the two ops and start over
StepC(op) ==
    /\ CopyLoop(op)
    /\ ~is_noop(op)
    /\ ~TreeFindPanics(LiftSpan, copy_queue, dest_range_of(op))
    /\ FirstSplittable(op) # 0
    /\ LET k == FirstSplittable(op)
           split == SplitStep(op, k)
       IN IF OverlapAssertFails(op, k)
          THEN status' = "panic_overlap" /\ UNCHANGED copy_queue
          ELSE IF split.panic
          THEN status' = "panic_index" /\ UNCHANGED copy_queue
          ELSE status' = status /\ copy_queue' = split.node
    /\ UNCHANGED <<phase, dry_run, device_length, device, write_ops, report,
                   expected_next_offset, zeroing_queue, final_csum_queue>>

\* lift.rs 127-137, Step D: every overlapping source is the destination itself,
\* swap and give those ops the source of op
StepD(op) ==
    /\ CopyLoop(op)
    /\ ~is_noop(op)
    /\ ~TreeFindPanics(LiftSpan, copy_queue, dest_range_of(op))
    /\ Len(overlapping_sources(op)) # 0
    /\ FirstSplittable(op) = 0
    /\ LET others == overlapping_sources(op)
           removed == TreeRemove(LiftSpan, copy_queue, op)
           io == swap_segment(IO(device, write_ops, dry_run, FALSE),
                              op.source, op.destination_offset)
           rewritten == RewriteSources(removed.node, op, others, 1)
       IN IF OverlapAssertFails(op, Len(others))
          THEN status' = "panic_overlap"
               /\ UNCHANGED <<copy_queue, device, write_ops>>
          ELSE IF removed.panic \/ ~removed.result
          THEN status' = "panic_index"
               /\ UNCHANGED <<copy_queue, device, write_ops>>
          ELSE IF io.err
          THEN /\ status' = "error_io"
               /\ copy_queue' = removed.node
               /\ device' = io.device
               /\ write_ops' = io.write_ops
          ELSE /\ device' = io.device
               /\ write_ops' = io.write_ops
               /\ copy_queue' = rewritten.node
               /\ status' = IF rewritten.panic THEN "panic_index" ELSE status
    /\ UNCHANGED <<phase, dry_run, device_length, report,
                   expected_next_offset, zeroing_queue, final_csum_queue>>

\* lift.rs 59-138: one iteration of the copy loop on op, from the device
\* contents dev and the index root_node; ok: it neither panicked nor failed
Iteration(op, dev, root_node) ==
    LET dest_range == dest_range_of(op)
        io == IO(dev, 0, dry_run, FALSE)
        removed == TreeRemove(LiftSpan, root_node, op)
        others == TreeFind(LiftSpan, root_node, dest_range)
        hits == {i \in 1..Len(others) : others[i].source # dest_range}
        k == CHOOSE i \in hits : \A j \in hits : i <= j
        choice == SplitChoice(op, others[k])
        taken == TreeRemove(LiftSpan, root_node, choice.victim)
        halves == chop_op(choice.victim, choice.prefix_len)
        ins1 == TreeInsert(LiftSpan, taken.node, halves[1])
        ins2 == TreeInsert(LiftSpan, ins1.node, halves[2])
        copied == copy_segment(io, op.source, op.destination_offset)
        swapped == swap_segment(io, op.source, op.destination_offset)
        rewritten == RewriteSources(removed.node, op, others, 1)
    IN IF is_noop(op)
       THEN [device |-> dev, copy_queue |-> removed.node,
             ok |-> ~removed.panic /\ removed.result]
       ELSE IF TreeFindPanics(LiftSpan, root_node, dest_range)
       THEN [device |-> dev, copy_queue |-> root_node, ok |-> FALSE]
       ELSE IF Len(others) = 0
       THEN [device |-> copied.device, copy_queue |-> removed.node,
             ok |-> ~removed.panic /\ removed.result /\ ~copied.err]
       ELSE IF hits # {}
       THEN [device |-> dev, copy_queue |-> ins2.node,
             ok |-> /\ \A i \in 1..k :
                          overlaps_range(dest_range, others[i].source)
                    /\ choice.rule # 0
                    /\ ~taken.panic /\ taken.result
                    /\ ~chop_op_panics(choice.victim, choice.prefix_len)
                    /\ ~ins1.panic /\ ins1.result
                    /\ ~ins2.panic /\ ins2.result]
       ELSE [device |-> swapped.device, copy_queue |-> rewritten.node,
             ok |-> /\ \A i \in 1..Len(others) :
                          overlaps_range(dest_range, others[i].source)
                    /\ ~removed.panic /\ removed.result
                    /\ ~swapped.err /\ ~rewritten.panic]

\* lift.rs 57-139: the device contents the copy loop may end with, from the
\* contents dev and the index root_node, over every pick of first()
RECURSIVE Drain(_, _)
Drain(dev, root_node) ==
    IF is_empty(root_node)
    THEN {dev}
    ELSE UNION {LET next == Iteration(op, dev, root_node)
                IN IF next.ok THEN Drain(next.device, next.copy_queue) ELSE {} :
                op \in first(root_node)}

\* lift.rs 58, 141: the copy loop ends when the index is empty
CopyDone ==
    /\ phase = "copy" /\ Running
    /\ ~copy_loop_condition
    /\ phase' = "zero"
    /\ UNCHANGED <<status, dry_run, device_length, device, write_ops, report,
                   expected_next_offset, zeroing_queue, final_csum_queue,
                   copy_queue>>

\* lift.rs 142-146: one zero extent is written
ZeroFill ==
    /\ phase = "zero" /\ Running
    /\ Len(zeroing_queue) # 0
    /\ LET range == Head(zeroing_queue)
           io == fill_zeros(IO(device, write_ops, dry_run, FALSE), range)
       IN /\ zeroing_queue' = Tail(zeroing_queue)
          /\ device' = io.device
          /\ write_ops' = io.write_ops
    /\ UNCHANGED <<phase, status, dry_run, device_length, report,
                   expected_next_offset, final_csum_queue, copy_queue>>

\* lift.rs 142, 148: the zero extents are all written
ZeroDone ==
    /\ phase = "zero" /\ Running
    /\ Len(zeroing_queue) = 0
    /\ phase' = "verify"
    /\ UNCHANGED <<status, dry_run, device_length, device, write_ops, report,
                   expected_next_offset, zeroing_queue, final_csum_queue,
                   copy_queue>>

\* lift.rs 149-153: one destination is checked against its checksum
Verify ==
    /\ phase = "verify" /\ Running
    /\ Len(final_csum_queue) # 0
    /\ LET csum == Head(final_csum_queue)
           valid == validate_checksum(device, csum.offset, csum.length, csum.csum)
       IN /\ final_csum_queue' = Tail(final_csum_queue)
          /\ status' = IF valid = "ok" THEN status
                       ELSE IF valid = "error" THEN "error_read"
                       ELSE "panic_final_checksum"
    /\ UNCHANGED <<phase, dry_run, device_length, device, write_ops, report,
                   expected_next_offset, zeroing_queue, copy_queue>>

\* lift.rs 149, 155-157: every destination checked, do_lift returns Ok(())
VerifyDone ==
    /\ phase = "verify" /\ Running
    /\ Len(final_csum_queue) = 0
    /\ phase' = "done"
    /\ status' = "ok"
    /\ UNCHANGED <<dry_run, device_length, device, write_ops, report,
                   expected_next_offset, zeroing_queue, final_csum_queue,
                   copy_queue>>

----------------------------------------------------------------------------
(* What the report asks for                                                 *)

\* The planner has accepted the whole report, and its records, each of a
\* length > 0, tile 0..device_length and end exactly there.
ValidReport ==
    /\ phase \in {"copy", "zero", "verify", "done"}
    /\ expected_next_offset = device_length
    /\ \A i \in 1..Len(report) : report[i].length > 0

OffsetRecords == {i \in 1..Len(report) : report[i].source.kind = "Offset"}

ZerosRecords == {i \in 1..Len(report) : report[i].source.kind = "Zeros"}

\* The destination offsets record i covers
Destination(i) ==
    report[i].destination_offset
        ..(report[i].destination_offset + report[i].length - 1)

\* The byte at offset o of the device; -1 past its end
ByteAt(dev, o) == IF o < Len(dev) THEN dev[o + 1] ELSE -1

\* The byte the report wants at destination offset d when an Offset record
\* covers d: the byte the initial device holds at the matching source offset
RequiredByte(d) ==
    LET i == CHOOSE j \in OffsetRecords : d \in Destination(j)
    IN ByteAt(InitialDevice(device_length),
              report[i].source.offset + (d - report[i].destination_offset))

\* The source ranges of the Offset records are pairwise disjoint
DisjointSources ==
    \A i, j \in OffsetRecords :
        i # j => \/ report[i].source.offset + report[i].length
                        <= report[j].source.offset
                 \/ report[j].source.offset + report[j].length
                        <= report[i].source.offset

----------------------------------------------------------------------------
(* The specifications                                                       *)

TreeNext ==
    \/ \E e \in TreeEntries : TreeInsertCall(e) /\ UNCHANGED not_tree_vars
    \/ \E e \in TreeEntries : TreeRemoveCall(e) /\ UNCHANGED not_tree_vars

\* The tree alone: do_lift is not running
InitTree ==
    /\ TreeInit
    /\ LiftIdle
    /\ RangeIdle
    /\ ScanIdle

RangeNext == OverlapsCall /\ UNCHANGED not_range_vars

\* RangeOps alone
InitRange ==
    /\ RangeInit
    /\ LiftIdle
    /\ TreeInit
    /\ ScanIdle

SpecRange == InitRange /\ [][RangeNext]_vars

\* do_scan alone
InitScan ==
    /\ ScanInit
    /\ LiftIdle
    /\ TreeInit
    /\ RangeIdle

SpecScan == InitScan /\ [][ScanNext]_vars

\* do_scan runs on: a step it can take is taken in the end
SpecScanFair == InitScan /\ [][ScanNext]_vars /\ WF_vars(ScanNext)

SpecTree == InitTree /\ [][TreeNext]_vars

Next ==
    \/ \E n \in {device_length, device_length + 1} :
          ReadSummary(n) /\ UNCHANGED not_lift_vars
    \/ ReportEnds /\ UNCHANGED not_lift_vars
    \/ \E e \in NextRecords : PlannerRecord(e) /\ UNCHANGED not_lift_vars
    \/ PlannerDone /\ UNCHANGED not_lift_vars
    \/ \E op \in first(copy_queue) : StepA(op) /\ UNCHANGED not_lift_vars
    \/ \E op \in first(copy_queue) : StepB(op) /\ UNCHANGED not_lift_vars
    \/ \E op \in first(copy_queue) : StepC(op) /\ UNCHANGED not_lift_vars
    \/ \E op \in first(copy_queue) : StepD(op) /\ UNCHANGED not_lift_vars
    \/ CopyDone /\ UNCHANGED not_lift_vars
    \/ ZeroFill /\ UNCHANGED not_lift_vars
    \/ ZeroDone /\ UNCHANGED not_lift_vars
    \/ Verify /\ UNCHANGED not_lift_vars
    \/ VerifyDone /\ UNCHANGED not_lift_vars

Spec == Init /\ [][Next]_vars

----------------------------------------------------------------------------
(* The claims                                                               *)

\* C1: end-to-end correctness of do_lift.  For a report that tiles
\* 0..device_length and whose fingerprints match, once the copy index is
\* empty every Offset destination holds the initial bytes of its source,
\* and once the zero extents are written every Zeros destination is zero,
\* whatever op first() picked at each iteration and whether or not two
\* records share source bytes.
C1_EndToEnd ==
    (ValidReport /\ ~dry_run /\ phase \in {"zero", "verify", "done"}) =>
        /\ \A i \in OffsetRecords : \A d \in Destination(i) :
               ByteAt(device, d) = RequiredByte(d)
        /\ phase \in {"verify", "done"} =>
               \A i \in ZerosRecords : \A d \in Destination(i) :
                   ByteAt(device, d) = 0

\* C2: the global invariant of the shuffler.  At the start of every iteration
\* of the copy loop, for every queued CopyOp (S, D), the bytes on the device at
\* S are the initial bytes the report requires at D..D+|S|.
C2_GlobalInvariant ==
    (ValidReport /\ ~dry_run /\ phase = "copy" /\ Running) =>
        \A op \in Entries(copy_queue) :
            \A k \in 0..(RangeLen(op.source) - 1) :
                ByteAt(device, op.source.start + k)
                    = RequiredByte(op.destination_offset + k)

RECURSIVE SumSourceLen(_)
SumSourceLen(ops) ==
    IF ops = {} THEN 0
    ELSE LET op == CHOOSE x \in ops : TRUE
         IN RangeLen(op.source) + SumSourceLen(ops \ {op})

\* Twice the bytes still queued minus the number of queued ops: a split keeps
\* the bytes and adds an op, a removal takes away at least one byte and one op
LoopVariant ==
    2 * SumSourceLen(Entries(copy_queue)) - Cardinality(Entries(copy_queue))

\* Every iteration of the copy loop that does not abort lowers LoopVariant,
\* which is never negative: the loop cannot go on for ever.
CopyLoopVariantDecreases ==
    [][(phase = "copy" /\ phase' = "copy" /\ Running')
            => (LoopVariant' < LoopVariant /\ LoopVariant' >= 0)]_vars

\* C3: termination of the shuffler.  For every set of CopyOps the planner
\* produces and every choice of the next op, the copy loop goes on until the
\* index is empty: it is never abandoned with ops still queued.
C3_LoopReachesEmptyIndex ==
    (phase = "copy" /\ ~is_empty(copy_queue)) => Running

\* Some offset lies in both ranges
Overlap(r, q) ==
    \E x \in r.start..(r.end - 1) : q.start <= x /\ x < q.end

\* C4: soundness of IntervalTree::find.  After any sequence of insert and
\* remove calls, for every non-empty query inside the span, find returns
\* exactly the live entries whose interval overlaps the query, each once.
C4_FindSound ==
    ~tree_call.panic =>
        \A q \in Queries :
            /\ ~TreeFindPanics(TreeSpan, tree, q)
            /\ LET found == TreeFind(TreeSpan, tree, q)
               IN /\ \A i, j \in 1..Len(found) : found[i] = found[j] => i = j
                  /\ {found[i] : i \in 1..Len(found)}
                        = {e \in live : Overlap(interval(e), q)}

\* C4's case: a removal has succeeded, two entries are left in different
\* nodes, and some query finds one of them and not the other.
C4_Witness ==
    /\ tree_call.op = "remove" /\ tree_call.result /\ ~tree_call.panic
    /\ Cardinality(live) = 2
    /\ tree.kind = "Populated"
    /\ ~is_empty(tree.left_node) \/ ~is_empty(tree.right_node)
    /\ \E q \in Queries : Len(TreeFind(TreeSpan, tree, q)) = 1

\* Every record accepted so far is an Offset record whose source offset is
\* its destination offset
IdentityReport ==
    \A i \in 1..Len(report) :
        /\ report[i].source.kind = "Offset"
        /\ report[i].source.offset = report[i].destination_offset

\* C5: the identity report.  If every extent is an Offset record whose source
\* offset equals its destination offset, do_lift issues no write, every queued
\* op is a no-op that Step A removes, and the device is unchanged.
C5_IdentityNoWrite ==
    (phase \in {"planner", "copy", "zero", "verify", "done"} /\ IdentityReport) =>
        /\ device = InitialDevice(device_length)
        /\ write_ops = 0
        /\ \A op \in Entries(copy_queue) : op.source.start = op.destination_offset

\* C5's case: a lift of an identity report of two or more extents has
\* returned Ok, not in dry-run mode.
C5_Witness ==
    /\ phase = "done" /\ status = "ok" /\ ~dry_run
    /\ IdentityReport
    /\ Len(report) >= 2

\* C6: dry-run purity.  With dry_run set, no call of copy_segment, swap_segment
\* or fill_zeros writes: the device is unchanged and no write is counted.
C6_DryRunPure ==
    dry_run => (device = InitialDevice(device_length) /\ write_ops = 0)

\* C6's case: a dry run whose report has a zero extent and extents to move has
\* gone through the copy loop and the zero-fills, and the final check then
\* finds a destination that was never written.
C6_Witness ==
    /\ dry_run /\ ValidReport
    /\ status = "panic_final_checksum"
    /\ ZerosRecords # {}
    /\ Len(zeroing_queue) = 0
    /\ is_empty(copy_queue)

\* C7: planner failures leave the device untouched.  No write is issued before
\* the summary and every extent record have been read and checked, so a do_lift
\* that fails on the device length, the tiling or a source fingerprint leaves
\* the device as it was.
C7_PlannerWritesNothing ==
    /\ (device # InitialDevice(device_length) \/ write_ops # 0) =>
          /\ phase \notin {"summary", "planner"}
          /\ expected_next_offset >= device_length
    /\ status \in {"panic_device_length", "panic_tiling", "panic_checksum"} =>
          (device = InitialDevice(device_length) /\ write_ops = 0)

\* C7's case: a source fingerprint does not match, after an earlier record
\* was accepted and its op queued, not in dry-run mode.
C7_Witness ==
    /\ status = "panic_checksum" /\ ~dry_run
    /\ ~is_empty(copy_queue)
    /\ \E op \in Entries(copy_queue) : op.source.start # op.destination_offset

\* C8: the end-of-tiling check.  The planner hands over to the copy loop only
\* when the running destination offset equals device_length exactly; a report
\* whose last record extends past device_length gets no copy, swap or zero-fill.
C8_EndOfTilingChecked ==
    phase \in {"copy", "zero", "verify", "done"} =>
        expected_next_offset = device_length

RECURSIVE SumLength(_, _)
SumLength(records, n) ==
    IF n = 0 THEN 0 ELSE records[n].length + SumLength(records, n - 1)

IsOffsetRecord(r) == r.source.kind = "Offset"

IsZerosRecord(r) == r.source.kind = "Zeros"

\* What the accepted records put in the three collections
QueuedZeros ==
    LET zs == SelectSeq(report, IsZerosRecord)
    IN [i \in 1..Len(zs) |->
          Range(zs[i].destination_offset, zs[i].destination_offset + zs[i].length)]

QueuedCsums ==
    LET os == SelectSeq(report, IsOffsetRecord)
    IN [i \in 1..Len(os) |->
          CsumOp(os[i].destination_offset, os[i].length, os[i].source.checksum)]

QueuedOps ==
    {CopyOp(Range(report[i].source.offset,
                  report[i].source.offset + report[i].length),
            report[i].destination_offset) : i \in OffsetRecords}

\* C9: the planner's tiling check.  Records are taken in order, each accepted
\* record starts at the running offset, which starts at 0 and advances by the
\* record's length, and the three collections hold nothing but what accepted
\* records put there: a record that leaves a gap or overlaps stops the planner
\* before it is enqueued anywhere.
C9_TilingChecked ==
    phase = "planner" =>
        /\ \A i \in 1..Len(report) :
               report[i].destination_offset = SumLength(report, i - 1)
        /\ expected_next_offset = SumLength(report, Len(report))
        /\ zeroing_queue = QueuedZeros
        /\ IF status \in {"error_read", "panic_checksum"}
           THEN final_csum_queue = SubSeq(QueuedCsums, 1, Len(QueuedCsums) - 1)
           ELSE final_csum_queue = QueuedCsums
        /\ Entries(copy_queue) \subseteq QueuedOps
        /\ status \in {"running", "panic_tiling", "error_report"} =>
               Entries(copy_queue) = QueuedOps

\* C9's case: a record is rejected by the tiling assertion after a Zeros and an
\* Offset record were accepted and enqueued.
C9_Witness ==
    /\ status = "panic_tiling"
    /\ Len(zeroing_queue) >= 1
    /\ Len(final_csum_queue) >= 1
    /\ ~is_empty(copy_queue)

\* C10: the phases of do_lift.  A zero extent is written only when the copy
\* index is empty, a destination is checked only when no zero extent is left
\* to write, and the index changes no more once a zero extent was taken.
C10_PhaseOrder ==
    [][/\ (Len(zeroing_queue') < Len(zeroing_queue)) =>
              (is_empty(copy_queue) /\ copy_queue' = copy_queue)
       /\ (Len(final_csum_queue') < Len(final_csum_queue)) =>
              (Len(zeroing_queue) = 0 /\ is_empty(copy_queue)
               /\ UNCHANGED <<zeroing_queue, copy_queue, device, write_ops>>)
       /\ (copy_queue' # copy_queue /\ phase # "planner") =>
              (zeroing_queue' = zeroing_queue /\ zeroing_queue = QueuedZeros
               /\ final_csum_queue' = final_csum_queue
               /\ final_csum_queue = QueuedCsums)]_vars

\* C10's case: a lift that moved bytes, wrote a zero extent and checked a
\* destination has returned Ok.
C10_Witness ==
    /\ phase = "done" /\ status = "ok" /\ ~dry_run
    /\ ZerosRecords # {}
    /\ write_ops >= 2
    /\ \E i \in OffsetRecords :
           report[i].source.offset # report[i].destination_offset

\* The number of entries stored under a node, counting repeats
RECURSIVE Size(_)
Size(node) ==
    IF node.kind = "Empty"
    THEN 0
    ELSE Len(node.here) + Size(node.left_node) + Size(node.right_node)

\* The tree stores the live entries, each once, and nothing else
TreeHoldsLive ==
    /\ Entries(tree) = live
    /\ Size(tree) = Cardinality(live)

\* C12: duplicate rejection in IntervalTree::insert.  In any tree reached by
\* inserts and removes, insert of an entry equal to a live one returns false
\* and leaves the live entries as they were; insert of an entry that is not
\* live, even one sharing its interval with a live entry, returns true and
\* adds it.
C12_DuplicateRejected ==
    tree_call.op = "insert" =>
        /\ ~tree_call.panic
        /\ tree_call.result = ~tree_call.was_live
        /\ TreeHoldsLive

\* C13: the contract of IntervalTree::remove.  remove(e) returns true exactly
\* when e was live, the tree then holds the live entries without e, each
\* once, and a remove of an entry that is not live changes nothing.
C13_RemoveContract ==
    /\ tree_call.op = "remove" =>
          (~tree_call.panic /\ tree_call.result = tree_call.was_live)
    /\ ~tree_call.panic => TreeHoldsLive

\* C13's case: a remove has returned true and left two live entries that
\* share their interval.
C13_Witness ==
    /\ tree_call.op = "remove" /\ tree_call.result /\ tree_call.was_live
    /\ \E e1, e2 \in live : e1 # e2 /\ interval(e1) = interval(e2)
    /\ Cardinality(live) = 2

\* C14: emptiness of the tree.  After any sequence of inserts and removes
\* is_empty() is true if and only if no entry is live; the root is Empty again
\* once the last entry is removed.
C14_EmptyIffNoLive ==
    ~tree_call.panic => (is_empty(tree) <=> live = {})

\* C14's case: a remove has taken the last live entry out.
C14_Witness ==
    /\ tree_call.op = "remove" /\ tree_call.result /\ ~tree_call.panic
    /\ live = {}
    /\ tree = EmptyNode

\* Every iteration of the copy loop leads to a state Iteration gives: Drain
\* follows the loop.
DrainFollowsLoop ==
    [][(phase = "copy" /\ Running /\ Running' /\ phase' = "copy")
            => \E op \in first(copy_queue) :
                   LET next == Iteration(op, device, copy_queue)
                   IN next.ok /\ next.device = device'
                      /\ next.copy_queue = copy_queue']_vars

\* lift.rs 142-146: the device contents once the zero extents of queue are
\* written over dev
RECURSIVE ZeroFilled(_, _)
ZeroFilled(dev, queue) ==
    IF Len(queue) = 0
    THEN dev
    ELSE ZeroFilled(fill_zeros(IO(dev, 0, dry_run, FALSE), Head(queue)).device,
                    Tail(queue))

\* C11: order independence.  For the same report and the same initial device
\* contents, the final device contents, the copy loop having drained the index
\* and the zero extents being written, are the same for every pick of the
\* next op: from the state the planner hands over, and from every state an
\* iteration leaves, one outcome at most.
C11_OrderIndependent ==
    (phase = "copy" /\ Running /\ ~dry_run
        /\ expected_next_offset = device_length) =>
        Cardinality({ZeroFilled(dev, zeroing_queue) :
                        dev \in Drain(device, copy_queue)}) <= 1

\* C18: dry-run skips the final check.  In dry-run mode no destination's
\* fingerprint is checked after the copy loop (or the result is ignored), so
\* a dry run of a report whose initial fingerprints match does not fail on a
\* destination that was never written.
C18_DryRunSkipsVerification ==
    (dry_run /\ phase \in {"verify", "done"}) => status \in {"running", "ok"}

\* C19: the guard of Step B.  An iteration that copies op, taking op and
\* nothing else out of the index, starts in a state where no queued op, op
\* included, has a source overlapping the destination of op; the copy leaves
\* every byte a queued op reads as it was.
C19_StepBGuard ==
    [][\A op \in Entries(copy_queue) :
          (/\ phase = "copy" /\ Running /\ Running'
           /\ ~is_noop(op)
           /\ Size(copy_queue') = Size(copy_queue) - 1
           /\ Entries(copy_queue') = Entries(copy_queue) \ {op})
          => /\ \A q \in Entries(copy_queue) :
                    ~Overlap(q.source, dest_range_of(op))
             /\ ~Overlap(op.source, dest_range_of(op))
             /\ \A q \in Entries(copy_queue) :
                    \A x \in q.source.start..(q.source.end - 1) :
                        ByteAt(device', x) = ByteAt(device, x)]_vars

\* C19's case: one copy has been written, and ops are still queued.
C19_Witness ==
    /\ phase = "copy" /\ Running /\ ~dry_run
    /\ expected_next_offset = device_length
    /\ write_ops = 1
    /\ device # InitialDevice(device_length)
    /\ ~is_empty(copy_queue)

\* Step D is what the iteration on op does: op is not in place and the index
\* finds ops reading its destination, none of them to split
StepDTaken(op) ==
    /\ phase = "copy" /\ Running
    /\ copy_loop_condition
    /\ ~is_noop(op)
    /\ ~TreeFindPanics(LiftSpan, copy_queue, dest_range_of(op))
    /\ Len(overlapping_sources(op)) # 0
    /\ FirstSplittable(op) = 0

\* C20: the guard of Step D.  A swap for op is done only when every queued op
\* whose source overlaps the destination of op has exactly that destination
\* as its source, and op is not one of them: the source of op and its
\* destination are disjoint, and neither assertion of Step D fails.
C20_StepDGuard ==
    \A op \in Entries(copy_queue) :
        StepDTaken(op) =>
            /\ \A q \in Entries(copy_queue) :
                   Overlap(q.source, dest_range_of(op)) =>
                       (q.source = dest_range_of(op) /\ q # op)
            /\ ~Overlap(op.source, dest_range_of(op))
            /\ ~OverlapAssertFails(op, Len(overlapping_sources(op)))
            /\ ~RewriteSources(TreeRemove(LiftSpan, copy_queue, op).node, op,
                               overlapping_sources(op), 1).panic

\* C20's case: a swap has been written (two writes), and an op rewritten by
\* it is still queued, not in place.
C20_Witness ==
    /\ phase = "copy" /\ Running /\ ~dry_run
    /\ expected_next_offset = device_length
    /\ write_ops = 2
    /\ device # InitialDevice(device_length)
    /\ \E op \in Entries(copy_queue) : ~is_noop(op)

\* C15: RangeOps agreement.  For non-empty ranges a..b and c..d,
\* overlaps_range is true exactly when some integer lies in both, for the
\* implementation of lift.rs and for the one of itree.rs, which therefore
\* agree on non-empty ranges.
C15_OverlapsAgree ==
    (/\ range_call.state = "returned"
     /\ ~range_is_empty(range_call.self)
     /\ ~range_is_empty(range_call.other)) =>
        /\ range_call.lift = Overlap(range_call.self, range_call.other)
        /\ range_call.itree = Overlap(range_call.self, range_call.other)
        /\ range_call.lift = range_call.itree

\* C15's case: overlaps_range has returned false for two non-empty ranges
\* that touch, the one ending where the other starts.
C15_Witness ==
    /\ range_call.state = "returned"
    /\ ~range_is_empty(range_call.self)
    /\ ~range_is_empty(range_call.other)
    /\ range_call.self.end = range_call.other.start
    /\ ~range_call.lift /\ ~range_call.itree

\* C16: the scanner's records tile the file.  The records do_scan writes start
\* at 0, each starts where the one before ends, their destination offsets
\* increase strictly, file_offset is where the last one ends, and when
\* do_scan returns Ok they end exactly at the length of the file.
C16_ScanTiles ==
    /\ \A i \in 1..Len(scan_out) :
           scan_out[i].destination_offset = SumLength(scan_out, i - 1)
    /\ \A i \in 2..Len(scan_out) :
           scan_out[i].destination_offset > scan_out[i - 1].destination_offset
    /\ ScanRunning => file_offset = SumLength(scan_out, Len(scan_out))
    /\ scan_status = "ok" => SumLength(scan_out, Len(scan_out)) = file_length

\* C16's case: do_scan has returned Ok after more than one request, having
\* written a record for a hole and a record for a mapped extent.
C16_Witness ==
    /\ scan_status = "ok"
    /\ Len(host_extents) > MaxMappedExtents
    /\ \E i \in 1..Len(scan_out) :
           /\ scan_out[i].source.kind = "Zeros"
           /\ \A j \in 1..Len(host_extents) :
                  host_extents[j].fe_logical # scan_out[i].destination_offset
    /\ \E i \in 1..Len(scan_out) : scan_out[i].source.kind = "Offset"

\* C17: every extent record do_scan writes has a length > 0, the record for a
\* hole before a mapped extent and the record for the tail after an extent
\* carrying the LAST flag included.
C17_ScanLengthsPositive ==
    \A i \in 1..Len(scan_out) : scan_out[i].length > 0

\* lift.rs 128-137: the index Step D leaves when the iteration is on op
StepDIndex(op) ==
    RewriteSources(TreeRemove(LiftSpan, copy_queue, op).node, op,
                   overlapping_sources(op), 1)

\* C21: the index rewrite of Step D.  After the swap for op, op is no longer
\* in the index, every queued op whose source was the destination of op is
\* replaced by an op with the source of op and the same destination_offset,
\* every other queued op is left as it was, and the index holds exactly one
\* op less.
C21_StepDRewrite ==
    \A op \in Entries(copy_queue) :
        StepDTaken(op) =>
            LET after == StepDIndex(op)
                moved == {q \in Entries(copy_queue) :
                             q.source = dest_range_of(op)}
            IN /\ ~after.panic
               /\ op \notin Entries(after.node)
               /\ Entries(after.node) =
                      (Entries(copy_queue) \ ({op} \cup moved))
                          \cup {[q EXCEPT !.source = op.source] : q \in moved}
               /\ Size(after.node) = Size(copy_queue) - 1
               /\ Cardinality(Entries(after.node)) = Size(after.node)

\* C21's case: of three queued ops of one byte each, a swap (two writes) has
\* taken one out, rewritten another and left the third as the planner
\* queued it.
C21_Witness ==
    /\ phase = "copy" /\ Running /\ ~dry_run /\ ValidReport
    /\ Len(report) = 3 /\ Cardinality(QueuedOps) = 3
    /\ write_ops = 2
    /\ Size(copy_queue) = 2
    /\ Entries(copy_queue) \cap QueuedOps # {}
    /\ Entries(copy_queue) \ QueuedOps # {}

\* The (source offset, destination offset) pairs the ops describe
Pairs(ops) ==
    UNION {{<<op.source.start + i, op.destination_offset + i>> :
               i \in 0..(RangeLen(op.source) - 1)} : op \in ops}

\* C22: a split preserves the mapping.  An iteration that takes Step C for op
\* and does not abort takes exactly one op x out of the index, op or an op
\* whose source overlaps the destination of op, and puts in exactly its two
\* halves (S.start..S.start+k, D) and (S.start+k..S.end, D+k), 0 < k < |S|;
\* it writes nothing to the device, and the byte pairs and the total source
\* length of the queued ops are what they were.
C22_SplitPreservesMapping ==
    [][\A op \in Entries(copy_queue) :
          (StepC(op) /\ Running') =>
              /\ device' = device /\ write_ops' = write_ops
              /\ \E x \in Entries(copy_queue) :
                    \E k \in 1..(RangeLen(x.source) - 1) :
                        LET S == x.source
                            D == x.destination_offset
                            op1 == CopyOp(Range(S.start, S.start + k), D)
                            op2 == CopyOp(Range(S.start + k, S.end), D + k)
                        IN /\ x = op \/ Overlap(x.source, dest_range_of(op))
                           /\ op1 \notin Entries(copy_queue)
                           /\ op2 \notin Entries(copy_queue)
                           /\ Entries(copy_queue')
                                  = (Entries(copy_queue) \ {x}) \cup {op1, op2}
              /\ Size(copy_queue') = Size(copy_queue) + 1
              /\ Cardinality(Entries(copy_queue')) = Size(copy_queue')
              /\ Pairs(Entries(copy_queue')) = Pairs(Entries(copy_queue))
              /\ SumSourceLen(Entries(copy_queue'))
                     = SumSourceLen(Entries(copy_queue))]_vars

\* C22's case: an op has been split, the index holds more ops than the
\* planner queued, and nothing has been written.
C22_Witness ==
    /\ phase = "copy" /\ Running /\ ~dry_run /\ ValidReport
    /\ Size(copy_queue) > Cardinality(QueuedOps)
    /\ write_ops = 0
    /\ device = InitialDevice(device_length)

\* C23: split selection is total and well-formed.  In every state of the copy
\* loop, for every queued op and every queued op q, op itself included, whose
\* source overlaps the destination of op without being equal to it, one of
\* the four split rules applies (never the panic!("BUG") fallthrough) and the
\* prefix length k chosen satisfies 0 < k < length of the op to split, so no
\* assertion of chop_op fails; the same for every op find returns.
C23_SplitSelectionTotal ==
    (phase = "copy" /\ Running) =>
        \A op \in Entries(copy_queue) :
            /\ \A q \in Entries(copy_queue) :
                   (Overlap(q.source, dest_range_of(op))
                        /\ q.source # dest_range_of(op)) =>
                       LET choice == SplitChoice(op, q)
                       IN /\ choice.rule \in 1..4
                          /\ choice.victim \in {op, q}
                          /\ 0 < choice.prefix_len
                          /\ choice.prefix_len < RangeLen(choice.victim.source)
                          /\ ~chop_op_panics(choice.victim, choice.prefix_len)
            /\ (~is_noop(op)
                    /\ ~TreeFindPanics(LiftSpan, copy_queue, dest_range_of(op))) =>
                   \A i \in 1..Len(overlapping_sources(op)) :
                       LET q == overlapping_sources(op)[i]
                           choice == SplitChoice(op, q)
                       IN q.source # dest_range_of(op) =>
                              /\ choice.rule # 0
                              /\ ~chop_op_panics(choice.victim,
                                                 choice.prefix_len)

\* C23's case: a split has been made, and the op x it took out of the index
\* was the one the rules choose for a queued op whose destination the source
\* of x overlapped without being equal to it.
C23_Witness ==
    /\ phase = "copy" /\ Running /\ ValidReport
    /\ write_ops = 0
    /\ Size(copy_queue) = Cardinality(QueuedOps) + 1
    /\ \E x \in QueuedOps \ Entries(copy_queue) :
          \E op \in QueuedOps \cap Entries(copy_queue) :
              /\ ~is_noop(op)
              /\ Overlap(x.source, dest_range_of(op))
              /\ x.source # dest_range_of(op)
              /\ SplitChoice(op, x).victim = x
              /\ SplitChoice(op, x).rule \in {2, 4}

\* A remove or an insert of the index did what its assertion asks for
Asserted(outcome) == ~outcome.panic /\ outcome.result

\* C24: the index operations of the copy loop never fail.  For a report the
\* planner accepted, whichever queued op the iteration is on, the remove its
\* step asserts finds its op in the index, and each insert it asserts (the
\* two halves of a split, the ops Step D rewrites) puts in an op equal to no
\* op the index holds.
C24_IndexOpsNeverFail ==
    (phase = "copy" /\ Running) =>
        \A op \in first(copy_queue) :
            LET removed == TreeRemove(LiftSpan, copy_queue, op)
                others == overlapping_sources(op)
                k == FirstSplittable(op)
                choice == SplitChoice(op, others[k])
                taken == TreeRemove(LiftSpan, copy_queue, choice.victim)
                halves == chop_op(choice.victim, choice.prefix_len)
                ins1 == TreeInsert(LiftSpan, taken.node, halves[1])
                ins2 == TreeInsert(LiftSpan, ins1.node, halves[2])
            IN IF is_noop(op)
               THEN Asserted(removed)
               ELSE IF TreeFindPanics(LiftSpan, copy_queue, dest_range_of(op))
               THEN TRUE
               ELSE IF Len(others) = 0
               THEN Asserted(removed)
               ELSE IF k # 0
               THEN /\ Asserted(taken)
                    /\ halves[1] \notin Entries(taken.node)
                    /\ Asserted(ins1)
                    /\ halves[2] \notin Entries(ins1.node)
                    /\ Asserted(ins2)
                    /\ ~SplitStep(op, k).panic
               ELSE /\ Asserted(removed)
                    /\ \A i \in 1..Len(others) :
                           /\ others[i] \in Entries(removed.node)
                           /\ [others[i] EXCEPT !.source = op.source]
                                  \notin Entries(removed.node)
                    /\ ~StepDIndex(op).panic

\* C24's case: of the two ops the planner queued, a split has put two halves
\* in for one and a swap has taken one out and rewritten another.
C24_Witness ==
    /\ phase = "copy" /\ Running /\ ~dry_run /\ ValidReport
    /\ Len(report) = 2 /\ Cardinality(QueuedOps) = 2
    /\ write_ops = 2
    /\ Size(copy_queue) = 2

\* C25: the bounds of queued ops.  At every point of the copy loop every
\* CopyOp in the index has a length > 0, a source ending at or before
\* device_length and a destination ending at or before device_length.
C25_QueuedOpsInBounds ==
    phase = "copy" =>
        \A op \in Entries(copy_queue) :
            /\ RangeLen(op.source) > 0
            /\ op.source.end <= device_length
            /\ op.destination_offset + RangeLen(op.source) <= device_length

\* No two queued ops read a byte in common
DisjointQueuedSources ==
    \A p, q \in Entries(copy_queue) :
        p # q => ~Overlap(p.source, q.source)

\* C26: end-to-end correctness under disjoint sources.  When no byte is the
\* source of two Offset records of the report the planner accepted, then
\* after every step of the shuffler the sources of the queued ops are
\* pairwise disjoint and, for every queued op (S, D), the device holds at S
\* the initial bytes the report requires at D; once the index is empty every
\* Offset destination holds the initial bytes of its source, and once the
\* zero extents are written every Zeros destination is zero; a report that
\* tiles the device is lifted without an abort.
C26_DisjointSourcesCorrect ==
    (phase \in {"copy", "zero", "verify", "done"} /\ ~dry_run
        /\ DisjointSources) =>
        /\ phase = "copy" =>
               /\ DisjointQueuedSources
               /\ Cardinality(Entries(copy_queue)) = Size(copy_queue)
               /\ \A op \in Entries(copy_queue) :
                      \A k \in 0..(RangeLen(op.source) - 1) :
                          ByteAt(device, op.source.start + k)
                              = RequiredByte(op.destination_offset + k)
        /\ phase \in {"zero", "verify", "done"} =>
               \A i \in OffsetRecords : \A d \in Destination(i) :
                   ByteAt(device, d) = RequiredByte(d)
        /\ phase \in {"verify", "done"} =>
               \A i \in ZerosRecords : \A d \in Destination(i) :
                   ByteAt(device, d) = 0
        /\ ValidReport => ~Failed

\* C26's case: a report with disjoint sources, zeros and two Offset records
\* not in place has been lifted to the end, the device changed.
C26_Witness ==
    /\ phase = "done" /\ status = "ok" /\ ~dry_run
    /\ ValidReport /\ DisjointSources
    /\ Cardinality({op \in QueuedOps : ~is_noop(op)}) >= 2
    /\ ZerosRecords # {}
    /\ device # InitialDevice(device_length)

\* The offsets of a range
Bytes(r) == r.start..(r.end - 1)

\* The destination offsets that are done: those of the Offset records that
\* no queued op is to write any more
Completed ==
    {d \in UNION {Destination(i) : i \in OffsetRecords} :
        \A op \in Entries(copy_queue) : d \notin Bytes(dest_range_of(op))}

\* Completed is the history it stands for: an iteration that takes op out by
\* Step A, B or D adds the destination of op and nothing else, a split adds
\* nothing.
CompletedFollowsLoop ==
    [][\A op \in Entries(copy_queue) :
          /\ ((StepA(op) \/ StepB(op) \/ StepD(op)) /\ Running') =>
                 Completed' = Completed \cup Bytes(dest_range_of(op))
          /\ (StepC(op) /\ Running') => Completed' = Completed]_vars

\* C27: completed destinations are never overwritten.  With pairwise
\* disjoint sources, once an op has been taken out by Step A, B or D, no later
\* copy (it writes the destination of its op), swap (it writes the
\* destination and the source of its op) or zero-fill (it writes its range)
\* writes a byte of the destination of that op, and those bytes stay as they
\* are.
C27_CompletedNeverOverwritten ==
    [][(phase \in {"copy", "zero"} /\ Running /\ ~dry_run /\ DisjointSources) =>
          /\ \A op \in Entries(copy_queue) :
                /\ (StepB(op) /\ Running') =>
                       Bytes(dest_range_of(op)) \cap Completed = {}
                /\ (StepD(op) /\ Running') =>
                       (Bytes(dest_range_of(op)) \cup Bytes(op.source))
                           \cap Completed = {}
          /\ ZeroFill => Bytes(Head(zeroing_queue)) \cap Completed = {}
          /\ Completed \subseteq Completed'
          /\ \A d \in Completed : ByteAt(device', d) = ByteAt(device, d)]_vars

\* C27's case: a swap has completed one destination, the op left was found
\* in place, and a zero extent has been written after that.
C27_Witness ==
    /\ phase = "zero" /\ Running /\ ~dry_run
    /\ ValidReport /\ DisjointSources
    /\ Len(report) = 3 /\ Cardinality(OffsetRecords) = 2
    /\ write_ops = 3
    /\ Len(zeroing_queue) = 0
    /\ Completed # {}

\* C28: the destination ranges of queued ops stay disjoint.  At every point
\* of the copy loop the destination ranges of the ops in the index are
\* pairwise disjoint and each lies within the destination range of one
\* Offset record of the report; no two queued ops are equal as values.
C28_DestinationsDisjoint ==
    phase = "copy" =>
        /\ \A p, q \in Entries(copy_queue) :
               p # q => ~Overlap(dest_range_of(p), dest_range_of(q))
        /\ \A p \in Entries(copy_queue) :
               /\ Bytes(dest_range_of(p)) # {}
               /\ \E i \in OffsetRecords :
                      Bytes(dest_range_of(p)) \subseteq Destination(i)
        /\ Cardinality(Entries(copy_queue)) = Size(copy_queue)

\* C28's case: after two writes, two ops that are not as the planner queued
\* them (halves of a split, ops a swap rewrote) are queued side by side
\* within the destination of one record.
C28_Witness ==
    /\ phase = "copy" /\ Running /\ ~dry_run
    /\ Size(copy_queue) >= 2
    /\ write_ops >= 2
    /\ \E p, q \in Entries(copy_queue) \ QueuedOps :
          /\ p # q
          /\ p.destination_offset < q.destination_offset
          /\ \E i \in OffsetRecords :
                 Bytes(dest_range_of(p)) \cup Bytes(dest_range_of(q))
                     \subseteq Destination(i)

\* C29: termination of the scanner.  For every extent map the host can
\* return for a file of length N > 0, a map that has no extent in the range
\* that is left included, the loop of do_scan ends: file_offset reaches N in
\* the end, or do_scan returns an error or aborts.
C29_ScanTerminates ==
    (scan_pc = "start" /\ ScanRunning /\ file_length > 0)
        ~> (file_offset = file_length \/ ~ScanRunning)

\* The entry of the inline singleton an insertion of entry comes to: the
\* insertion goes down the children whose span contains the interval of
\* entry; the set is empty when it ends at no inline singleton
RECURSIVE InlineSingletonMet(_, _, _)
InlineSingletonMet(node, span, entry) ==
    LET mid == MidOf(span)
        left_span == Range(span.start, mid)
        right_span == Range(mid, span.end)
        can_have_children == (span.end - span.start) >= 2
    IN IF node.kind = "Empty"
       THEN {}
       ELSE IF is_inline_singleton(node)
       THEN {node.here[1]}
       ELSE IF can_have_children /\ contains_range(left_span, interval(entry))
       THEN InlineSingletonMet(node.left_node, left_span, entry)
       ELSE IF can_have_children /\ contains_range(right_span, interval(entry))
       THEN InlineSingletonMet(node.right_node, right_span, entry)
       ELSE {}

\* entry is held where an insertion leaves it: by an inline singleton, or by
\* the deepest node, down the populated children, whose children's spans do
\* not contain its interval
RECURSIVE PlacedDeepest(_, _, _)
PlacedDeepest(node, span, entry) ==
    LET mid == MidOf(span)
        left_span == Range(span.start, mid)
        right_span == Range(mid, span.end)
        can_have_children == (span.end - span.start) >= 2
    IN IF node.kind = "Empty"
       THEN FALSE
       ELSE IF SeqContains(node.here, entry)
       THEN \/ is_inline_singleton(node)
            \/ ~can_have_children
            \/ /\ ~contains_range(left_span, interval(entry))
               /\ ~contains_range(right_span, interval(entry))
       ELSE IF can_have_children /\ contains_range(left_span, interval(entry))
       THEN PlacedDeepest(node.left_node, left_span, entry)
       ELSE IF can_have_children /\ contains_range(right_span, interval(entry))
       THEN PlacedDeepest(node.right_node, right_span, entry)
       ELSE FALSE

\* C30: insertion re-places an inline singleton.  When insert adds a new
\* entry to a node that was an inline singleton, whatever new entry not
\* equal to the one the node held, the re-insertion of the held entry
\* succeeds (the assertion on it does not fail), insert returns true, the
\* tree holds the entries it held and the new one, and the held entry and
\* the new one are each at the deepest node whose span contains its
\* interval, given the children there are now.
C30_SingletonReplaced ==
    TreeRunning =>
        \A entry \in TreeEntries :
            \A singleton_entry \in InlineSingletonMet(tree, TreeSpan, entry) :
                singleton_entry # entry =>
                    LET r == TreeInsert(TreeSpan, tree, entry)
                    IN /\ ~r.panic
                       /\ r.result
                       /\ Entries(r.node) = Entries(tree) \cup {entry}
                       /\ Size(r.node) = Size(tree) + 1
                       /\ PlacedDeepest(r.node, TreeSpan, singleton_entry)
                       /\ PlacedDeepest(r.node, TreeSpan, entry)

\* C30's case: an insert into a tree of one entry, inlined at the root, has
\* returned true, and the root now holds nothing itself: the entry it held
\* is in one child and the new one in the other.
C30_Witness ==
    /\ tree_call.op = "insert" /\ tree_call.result /\ ~tree_call.panic
    /\ Cardinality(live) = 2
    /\ tree.kind = "Populated"
    /\ Len(tree.here) = 0
    /\ ~is_empty(tree.left_node)
    /\ ~is_empty(tree.right_node)

\* The entries of the bag of node, and of every bag beneath it, are where
\* the tree places entries: inside the span of their node and, unless the
\* node is an inline singleton or its span is shorter than 2, inside the
\* span of neither child
RECURSIVE WellPlaced(_, _)
WellPlaced(node, span) ==
    LET mid == MidOf(span)
        left_span == Range(span.start, mid)
        right_span == Range(mid, span.end)
        can_have_children == (span.end - span.start) >= 2
    IN IF node.kind = "Empty"
       THEN TRUE
       ELSE /\ \A i \in 1..Len(node.here) :
                  /\ contains_range(span, interval(node.here[i]))
                  /\ \/ is_inline_singleton(node)
                     \/ ~can_have_children
                     \/ /\ ~contains_range(left_span, interval(node.here[i]))
                        /\ ~contains_range(right_span, interval(node.here[i]))
            /\ WellPlaced(node.left_node, left_span)
            /\ WellPlaced(node.right_node, right_span)

\* C31: the placement invariant of the tree.  After any sequence of inserts
\* and removes, every entry in the bag of a node has its interval inside the
\* span of that node and, unless the node is an inline singleton or its span
\* has a length < 2, inside the span of neither child.
C31_PlacementInvariant == WellPlaced(tree, TreeSpan)

\* C31's case: a remove has returned true and its demotion has left the root
\* an inline singleton, holding an entry that would fit its left child.
C31_Witness ==
    /\ TreeRunning
    /\ tree_call.op = "remove" /\ tree_call.result
    /\ tree.kind = "Populated"
    /\ is_inline_singleton(tree)
    /\ contains_range(Range(TreeSpan.start, MidOf(TreeSpan)),
                      interval(tree.here[1]))

\* A node of the subtree is Populated with nothing in its bag nor beneath it
RECURSIVE HasEmptyPopulated(_)
HasEmptyPopulated(node) ==
    IF node.kind = "Empty"
    THEN FALSE
    ELSE \/ Entries(node) = {}
         \/ inline_singleton_assert_fails(node)
         \/ HasEmptyPopulated(node.left_node)
         \/ HasEmptyPopulated(node.right_node)

\* A node of the subtree has an empty bag and one populated child, an inline
\* singleton: what the demotion of remove is there to undo
RECURSIVE HasUndemoted(_)
HasUndemoted(node) ==
    IF node.kind = "Empty"
    THEN FALSE
    ELSE \/ /\ Len(node.here) = 0
            /\ is_empty(node.left_node) # is_empty(node.right_node)
            /\ \/ ~is_empty(node.left_node) /\ is_inline_singleton(node.left_node)
               \/ ~is_empty(node.right_node) /\ is_inline_singleton(node.right_node)
         \/ HasUndemoted(node.left_node)
         \/ HasUndemoted(node.right_node)

\* C32: no empty populated node.  After any sequence of inserts and removes
\* every Populated node has an entry in its bag or beneath it, so neither
\* the panic "Node is entirely empty" of remove, nor the assertion of
\* is_inline_singleton, nor the debug assertion of is_empty fires on a
\* remove or on an insert of an entry the tree does not hold; and no node is
\* left with an empty bag and a single populated child that is an inline
\* singleton.
C32_NoEmptyPopulated ==
    TreeRunning =>
        /\ ~HasEmptyPopulated(tree)
        /\ ~HasUndemoted(tree)
        /\ \A entry \in TreeEntries :
               /\ ~TreeRemove(TreeSpan, tree, entry).panic
               /\ entry \notin live => ~TreeInsert(TreeSpan, tree, entry).panic

\* C32's case: a remove has returned true and has left the root with an
\* empty bag and the right child alone, which holds two entries and is not
\* demoted.
C32_Witness ==
    /\ TreeRunning
    /\ tree_call.op = "remove" /\ tree_call.result
    /\ tree.kind = "Populated"
    /\ Len(tree.here) = 0
    /\ is_empty(tree.left_node)
    /\ Cardinality(live) = 2
    /\ Entries(tree.right_node) = live

====
